---- MODULE Spec2Model ----
(***************************************************************************)
(* Model of the event-processing and timeline-layout pipeline of the       *)
(* performance tool: the event reconciler (processEvents), the timeline    *)
(* geometry (calculateTimelineBounds, calculateLanePositions) and the      *)
(* filter layer (useEventProcessing and the inline filters of              *)
(* PerformanceToolPage).                                                   *)
(*                                                                         *)
(* Strings are sequences of one-character strings, so that endsWith,       *)
(* startsWith, includes, substring and toLowerCase are computed as the     *)
(* JavaScript string methods compute them.  An optional field of an entry  *)
(* (undefined in the source) is the empty sequence, a present one is a     *)
(* one-element sequence.                                                   *)
(***************************************************************************)
EXTENDS Integers, Sequences, FiniteSets, TLC

\* ------------------------------------------------------------------ bounds
MaxEvents == 3
MaxLaneEvents == 3
MaxData == 2
MaxResources == 2
MaxMessages == 2
MaxPairingEvents == 4
MaxNavEvents == 2

\* ------------------------------------------------------------ state
VARIABLES
  data,                    \* data.data, the raw entries handed to the page
  ssrTimeOffset,           \* filter state of usePerformanceFilters ...
  timelineFilters,
  selectedMarkNames,
  tableFilters,
  tableSearchTerm,
  showNegativeTimestamps,
  graphEndTime,            \* <<>> is null, <<t>> is the number t
  minDurationMs,
  resourceDomainFilters,
  externalBaseUrl,         \* data.siteModels.publicModel.externalBaseUrl, <<>> when absent
  filteredEvents,          \* the filteredEvents prop of the timeline view
  zoomLevel,               \* in tenths: 10 is the zoom level 1
  panOffset,
  settingsLoaded,
  savedFilters,            \* localStorage 'performance-tool:filters', <<>> when absent
  pendingEffects,          \* effects of the last commit that have not run yet
  queuedUpdates,           \* state updates queued for the next render, <<>> when none
  strictRerun,             \* the mount effects have been run a second time
  firstWrite,              \* the first payload written by the save effect, <<>> before it
  mountStorage,            \* what savedFilters held when the hook mounted
  pageData,                \* the data state of usePerformanceData, <<>> is null
  lastData,                \* localStorage 'performance-tool:lastData', <<>> when absent
  received,                \* the received flag of the effect closure
  timeoutId,               \* the 2000 ms timer: "armed", "fired" or "cleared"
  listening,               \* the message listener is registered
  fetching,                \* handler invocations awaiting fetchSiteModels
  messageCount,            \* messages delivered so far
  resourceFilterFileTypes, \* the four multi-select filters of the resources view
  resourceFilterServices,
  resourceFilterExtensions,
  resourceFilterSubtypes

filterVars == <<ssrTimeOffset, timelineFilters, selectedMarkNames, tableFilters,
                tableSearchTerm, showNegativeTimestamps, graphEndTime,
                minDurationMs, resourceDomainFilters>>

\* everything of the settings persistence except the pending effects
persistRest == <<zoomLevel, panOffset, settingsLoaded, savedFilters,
                 queuedUpdates, strictRerun, firstWrite, mountStorage>>

settingsVars == <<persistRest, pendingEffects>>

loaderVars == <<pageData, lastData, received, timeoutId, listening, fetching,
                messageCount>>

resourceVars == <<resourceFilterFileTypes, resourceFilterServices,
                  resourceFilterExtensions, resourceFilterSubtypes>>

vars == <<data, filterVars, externalBaseUrl, filteredEvents, settingsVars,
          loaderVars, resourceVars>>

\* ------------------------------------------------------------ strings
Min2(a, b) == IF a <= b THEN a ELSE b
Max2(a, b) == IF a >= b THEN a ELSE b

UpperChars == <<"A", "B", "C", "D", "E", "F", "G", "H", "I", "J", "K", "L", "M", "N", "O", "P", "Q", "R", "S", "T", "U", "V", "W", "X", "Y", "Z">>
LowerChars == <<"a", "b", "c", "d", "e", "f", "g", "h", "i", "j", "k", "l", "m", "n", "o", "p", "q", "r", "s", "t", "u", "v", "w", "x", "y", "z">>
LowerOf == [c \in {UpperChars[i] : i \in 1..26} |->
              LowerChars[CHOOSE i \in 1..26 : UpperChars[i] = c]]

toLowerCaseChar(c) == IF c \in DOMAIN LowerOf THEN LowerOf[c] ELSE c

toLowerCase(s) == [i \in 1..Len(s) |-> toLowerCaseChar(s[i])]

\* String.prototype.substring(from, to), 0-based, end exclusive, clamped
substring(s, from, to) ==
  SubSeq(s, Max2(0, Min2(from, Len(s))) + 1, Max2(0, Min2(to, Len(s))))

endsWith(s, suffix) ==
  /\ Len(suffix) <= Len(s)
  /\ SubSeq(s, Len(s) - Len(suffix) + 1, Len(s)) = suffix

startsWith(s, prefix) ==
  /\ Len(prefix) <= Len(s)
  /\ SubSeq(s, 1, Len(prefix)) = prefix

Range(s) == {s[i] : i \in DOMAIN s}

includes(s, sub) ==
  \E i \in 0..(Len(s) - Len(sub)) : SubSeq(s, i + 1, i + Len(sub)) = sub

STARTED  == <<" ", "s", "t", "a", "r", "t", "e", "d">>
ENDED    == <<" ", "e", "n", "d", "e", "d">>
FINISHED == <<" ", "f", "i", "n", "i", "s", "h", "e", "d">>
SERVER_SUFFIX == <<" ", "(", "s", "e", "r", "v", "e", "r", ")">>
SERVER_KEY    == <<"_", "s", "e", "r", "v", "e", "r">>

\* ------------------------------------------------------------ entries
NoNav == [f \in {} |-> 0]

\* a raw PerformanceEntry: no bookkeeping field is set
Entry(name, entryType, startTime, duration, nav) ==
  [name |-> name, entryType |-> entryType, startTime |-> startTime,
   duration |-> duration, nav |-> nav,
   originalIndex |-> <<>>, isServer |-> <<>>,
   isCombined |-> <<>>, endEvent |-> <<>>, navigationPhase |-> <<>>]

\* ------------------------------------------------------------ reconciler
normalizeName(name) ==
  LET lowerName == toLowerCase(name)
  IN IF endsWith(lowerName, SERVER_SUFFIX)
     THEN [normalized |-> substring(name, 0, Len(name) - 9), isServer |-> TRUE]
     ELSE [normalized |-> name, isServer |-> FALSE]

pairingKey(baseName, isServer) ==
  toLowerCase(baseName) \o (IF isServer THEN SERVER_KEY ELSE <<>>)

combinedName(baseName, isServer) ==
  baseName \o (IF isServer THEN SERVER_SUFFIX ELSE <<>>)

\* an offset added to every entry
applySsrOffsetToAll(events, offset) ==
  [i \in 1..Len(events) |->
     IF offset # 0
     THEN [events[i] EXCEPT !.startTime = @ + offset]
     ELSE events[i]]

applySsrOffset(events, offset) ==
  [i \in 1..Len(events) |->
     IF events[i].entryType = "SSR" /\ offset # 0
     THEN [events[i] EXCEPT !.startTime = @ + offset]
     ELSE events[i]]

\* a map that keeps the first value set for a key
mapSetIfAbsent(m, key, value) ==
  [k \in (DOMAIN m) \cup {key} |-> IF k \in DOMAIN m THEN m[k] ELSE value]

mapSet(m, key, value) ==
  [k \in (DOMAIN m) \cup {key} |-> IF k = key THEN value ELSE m[k]]

\* a map from which nothing is deleted
mapDeleteNothing(m, key) == m

mapDelete(m, key) == [k \in (DOMAIN m) \ {key} |-> m[k]]

EmptyMap == [k \in {} |-> 0]

\* first pass over indices 1..n: the map of started events and the used indices
RECURSIVE firstPass(_, _)
firstPass(ev, n) ==
  IF n = 0 THEN [startedEvents |-> EmptyMap, usedIndices |-> {}]
  ELSE LET prev == firstPass(ev, n - 1)
           nn == normalizeName(ev[n].name)
           lowerName == toLowerCase(nn.normalized)
       IN IF endsWith(lowerName, STARTED)
          THEN LET baseName == substring(nn.normalized, 0, Len(nn.normalized) - 8)
                   key == pairingKey(baseName, nn.isServer)
               IN [startedEvents |->
                     mapSet(prev.startedEvents, key,
                            [ev[n] EXCEPT !.originalIndex = <<n - 1>>,
                                          !.isServer = <<nn.isServer>>]),
                   usedIndices |-> prev.usedIndices \cup {n}]
          ELSE prev

\* a branch body that puts the combined entry in front of the earlier ones
matchEndInFront(st, event, n, baseName, isServer) ==
  LET key == pairingKey(baseName, isServer)
  IN IF key \in DOMAIN st.startedEvents
     THEN LET startedEvent == st.startedEvents[key]
          IN [startedEvents |-> mapDelete(st.startedEvents, key),
              usedIndices |-> st.usedIndices \cup {n},
              combinedEvents |->
                << [startedEvent EXCEPT
                      !.name = combinedName(baseName, isServer),
                      !.duration = event.startTime - startedEvent.startTime,
                      !.entryType = startedEvent.entryType,
                      !.isCombined = <<TRUE>>,
                      !.endEvent = <<event>>] >> \o st.combinedEvents]
     ELSE st

\* the body shared by the ' ended' and the ' finished' branch
matchEnd(st, event, n, baseName, isServer) ==
  LET key == pairingKey(baseName, isServer)
  IN IF key \in DOMAIN st.startedEvents
     THEN LET startedEvent == st.startedEvents[key]
          IN [startedEvents |-> mapDelete(st.startedEvents, key),
              usedIndices |-> st.usedIndices \cup {n},
              combinedEvents |->
                Append(st.combinedEvents,
                       [startedEvent EXCEPT
                          !.name = combinedName(baseName, isServer),
                          !.duration = event.startTime - startedEvent.startTime,
                          !.entryType = startedEvent.entryType,
                          !.isCombined = <<TRUE>>,
                          !.endEvent = <<event>>])]
     ELSE st

RECURSIVE secondPass(_, _)
secondPass(ev, n) ==
  IF n = 0
  THEN LET fp == firstPass(ev, Len(ev))
       IN [startedEvents |-> fp.startedEvents, usedIndices |-> fp.usedIndices,
           combinedEvents |-> <<>>]
  ELSE LET prev == secondPass(ev, n - 1)
           nn == normalizeName(ev[n].name)
           lowerName == toLowerCase(nn.normalized)
       IN IF endsWith(lowerName, ENDED)
          THEN matchEnd(prev, ev[n], n,
                        substring(nn.normalized, 0, Len(nn.normalized) - 6),
                        nn.isServer)
          ELSE IF endsWith(lowerName, FINISHED)
          THEN matchEnd(prev, ev[n], n,
                        substring(nn.normalized, 0, Len(nn.normalized) - 9),
                        nn.isServer)
          ELSE prev

\* ------------------------------------------------------------ navigation phases
\* the eight addPhase calls, in source order: phase name, start field, end field
NavigationPhaseTable ==
  <<[name |-> <<"D", "N", "S", " ", "L", "o", "o", "k", "u", "p">>,
      start |-> "domainLookupStart", end |-> "domainLookupEnd"],
     [name |-> <<"T", "C", "P", " ", "C", "o", "n", "n", "e", "c", "t", "i", "o", "n">>,
      start |-> "connectStart", end |-> "connectEnd"],
     [name |-> <<"R", "e", "q", "u", "e", "s", "t", " ", "(", "T", "T", "F", "B", ")">>,
      start |-> "requestStart", end |-> "responseStart"],
     [name |-> <<"R", "e", "s", "p", "o", "n", "s", "e", " ", "D", "o", "w", "n", "l", "o", "a", "d">>,
      start |-> "responseStart", end |-> "responseEnd"],
     [name |-> <<"D", "O", "M", " ", "P", "a", "r", "s", "i", "n", "g">>,
      start |-> "responseEnd", end |-> "domInteractive"],
     [name |-> <<"D", "O", "M", "C", "o", "n", "t", "e", "n", "t", "L", "o", "a", "d", "e", "d">>,
      start |-> "domContentLoadedEventStart", end |-> "domContentLoadedEventEnd"],
     [name |-> <<"L", "o", "a", "d", "i", "n", "g", " ", "R", "e", "s", "o", "u", "r", "c", "e", "s">>,
      start |-> "domContentLoadedEventEnd", end |-> "domComplete"],
     [name |-> <<"L", "o", "a", "d", " ", "E", "v", "e", "n", "t">>,
      start |-> "loadEventStart", end |-> "loadEventEnd"]>>

\* a field of the navigation entry is truthy when it is present and not 0
truthyField(navEvent, f) == f \in DOMAIN navEvent.nav /\ navEvent.nav[f] # 0

\* addPhase: the phase is pushed when its span is at least minDuration = 1
addPhase(phases, name, start, end) ==
  LET duration == end - start
  IN IF duration >= 1
     THEN Append(phases,
                 [Entry(name, "navigation-phase", start, duration, NoNav)
                    EXCEPT !.navigationPhase = <<TRUE>>])
     ELSE phases

RECURSIVE extractPhasesUpTo(_, _)
extractPhasesUpTo(navEvent, k) ==
  IF k = 0 THEN <<>>
  ELSE LET prev == extractPhasesUpTo(navEvent, k - 1)
           row == NavigationPhaseTable[k]
       IN IF truthyField(navEvent, row.start) /\ truthyField(navEvent, row.end)
          THEN addPhase(prev, row.name, navEvent.nav[row.start], navEvent.nav[row.end])
          ELSE prev

extractNavigationPhases(navEvent) ==
  extractPhasesUpTo(navEvent, Len(NavigationPhaseTable))

\* third pass: every index not in usedIndices is emitted, a navigation entry
\* followed by its phases
\* a third pass that also emits the entries the first two passes used
RECURSIVE thirdPassKeepUsed(_, _, _)
thirdPassKeepUsed(ev, st, n) ==
  IF n = 0 THEN st.combinedEvents
  ELSE LET prev == thirdPassKeepUsed(ev, st, n - 1)
       IN IF ev[n].entryType = "navigation"
          THEN Append(prev, ev[n]) \o extractNavigationPhases(ev[n])
          ELSE Append(prev, ev[n])

RECURSIVE thirdPass(_, _, _)
thirdPass(ev, st, n) ==
  IF n = 0 THEN st.combinedEvents
  ELSE LET prev == thirdPass(ev, st, n - 1)
       IN IF n \notin st.usedIndices
          THEN IF ev[n].entryType = "navigation"
               THEN Append(prev, ev[n]) \o extractNavigationPhases(ev[n])
               ELSE Append(prev, ev[n])
          ELSE prev

processEvents(events, offset) ==
  LET eventsWithOffset == applySsrOffset(events, offset)
      st == secondPass(eventsWithOffset, Len(eventsWithOffset))
  IN thirdPass(eventsWithOffset, st, Len(eventsWithOffset))

\* the inline reconciler of PerformanceToolPage: the same three passes, the
\* third one without the navigation breakdown
RECURSIVE thirdPassInline(_, _, _)
thirdPassInline(ev, st, n) ==
  IF n = 0 THEN st.combinedEvents
  ELSE LET prev == thirdPassInline(ev, st, n - 1)
       IN IF n \notin st.usedIndices THEN Append(prev, ev[n]) ELSE prev

processedEventsInline(events, offset) ==
  LET eventsWithOffset == applySsrOffset(events, offset)
      st == secondPass(eventsWithOffset, Len(eventsWithOffset))
  IN thirdPassInline(eventsWithOffset, st, Len(eventsWithOffset))

\* ------------------------------------------------------------ timeline geometry
\* comparator of timelineUtils.calculateLanePositions
compareByStartThenEnd(a, b) ==
  IF a.startTime # b.startTime
  THEN a.startTime - b.startTime
  ELSE (b.startTime + b.duration) - (a.startTime + a.duration)

\* comparator of the variant that puts navigation and its phases first
compareNavFirst(a, b) ==
  LET aIsNav == a.entryType = "navigation"
      bIsNav == b.entryType = "navigation"
      aIsNavPhase == a.entryType = "navigation-phase"
      bIsNavPhase == b.entryType = "navigation-phase"
  IN IF aIsNav /\ ~bIsNav THEN -1
     ELSE IF ~aIsNav /\ bIsNav THEN 1
     ELSE IF aIsNavPhase /\ ~bIsNavPhase THEN -1
     ELSE IF ~aIsNavPhase /\ bIsNavPhase THEN 1
     ELSE compareByStartThenEnd(a, b)

compare(navFirst, a, b) ==
  IF navFirst THEN compareNavFirst(a, b) ELSE compareByStartThenEnd(a, b)

\* Array.prototype.sort is stable: x is inserted after every element that does
\* not compare greater than it
RECURSIVE insertSorted(_, _, _)
insertSorted(sorted, x, navFirst) ==
  IF sorted = <<>> THEN <<x>>
  ELSE IF compare(navFirst, Head(sorted), x) <= 0
       THEN <<Head(sorted)>> \o insertSorted(Tail(sorted), x, navFirst)
       ELSE <<x>> \o sorted

RECURSIVE sortUpTo(_, _, _)
sortUpTo(s, n, navFirst) ==
  IF n = 0 THEN <<>> ELSE insertSorted(sortUpTo(s, n - 1, navFirst), s[n], navFirst)

sort(s, navFirst) == sortUpTo(s, Len(s), navFirst)

\* lanes is 1-based here: lanes[i + 1] is the source's lanes[i]
RECURSIVE lowestOccupiedLaneFrom(_, _, _)
lowestOccupiedLaneFrom(lanes, startTime, i) ==
  \* the value of lowestOccupiedLane after the loop over 0..i-1
  IF i = 0 THEN -1
  ELSE IF lanes[i] > startTime THEN i - 1
       ELSE lowestOccupiedLaneFrom(lanes, startTime, i - 1)

\* first index i >= from with lanes[i] <= startTime, or -1
RECURSIVE firstAvailableLane(_, _, _)
firstAvailableLane(lanes, startTime, from) ==
  IF from >= Len(lanes) THEN -1
  ELSE IF lanes[from + 1] <= startTime THEN from
       ELSE firstAvailableLane(lanes, startTime, from + 1)

\* while (lanes.length <= lane) lanes.push(0); lanes[lane] = eventEnd
padAndSet(lanes, lane, eventEnd) ==
  [i \in 1..Max2(Len(lanes), lane + 1) |->
     IF i = lane + 1 THEN eventEnd
     ELSE IF i <= Len(lanes) THEN lanes[i] ELSE 0]

\* one iteration of sorted.map(...) of timelineUtils.calculateLanePositions
placeEvent(st, event) ==
  LET eventEnd == event.startTime + event.duration
      newStart == event.startTime > st.lastStartTime
      minLane == IF newStart
                 THEN Max2(0, lowestOccupiedLaneFrom(st.lanes, event.startTime,
                                                     Len(st.lanes)) + 1)
                 ELSE st.minLaneForNextStartTime
      last == IF newStart THEN event.startTime ELSE st.lastStartTime
      found == firstAvailableLane(st.lanes, event.startTime, minLane)
      lane == IF found # -1 THEN found ELSE Max2(Len(st.lanes), minLane)
  IN [lanes |-> padAndSet(st.lanes, lane, eventEnd),
      minLaneForNextStartTime |-> minLane,
      lastStartTime |-> last,
      out |-> Append(st.out, [event |-> event, lane |-> lane])]

RECURSIVE placeUpTo(_, _)
placeUpTo(sorted, n) ==
  IF n = 0
  THEN [lanes |-> <<>>, minLaneForNextStartTime |-> 0, lastStartTime |-> -1,
        out |-> <<>>]
  ELSE placeEvent(placeUpTo(sorted, n - 1), sorted[n])

calculateLanePositions(events) ==
  LET sorted == sort(events, FALSE)
  IN placeUpTo(sorted, Len(sorted)).out

\* ---- the variant that reserves lane 0 for navigation and lane 1 for its phases
\* while (lanes.length < n) lanes.push(0)
padTo(lanes, n) ==
  [i \in 1..Max2(Len(lanes), n) |-> IF i <= Len(lanes) THEN lanes[i] ELSE 0]

placeEventNav(st, event) ==
  LET eventEnd == event.startTime + event.duration
  IN IF event.entryType = "navigation"
     THEN [st EXCEPT !.lanes = [padTo(st.lanes, 1) EXCEPT ![1] = eventEnd],
                     !.out = Append(st.out, [event |-> event, lane |-> 0])]
     ELSE IF event.entryType = "navigation-phase"
     THEN [st EXCEPT !.lanes = [padTo(st.lanes, 2) EXCEPT ![2] = Max2(@, eventEnd)],
                     !.out = Append(st.out, [event |-> event, lane |-> 1])]
     ELSE
       LET newStart == event.startTime > st.lastStartTime
           minLane == IF newStart THEN st.maxLaneUsedSoFar + 1
                      ELSE st.minLaneForNextStartTime
           last == IF newStart THEN event.startTime ELSE st.lastStartTime
           searchStartLane ==
             IF newStart THEN minLane
             ELSE IF event.startTime = st.lastStartTime THEN 2
             ELSE st.minLaneForNextStartTime
           found == firstAvailableLane(st.lanes, event.startTime, searchStartLane)
           lane == IF found # -1 THEN found
                   ELSE Max2(Len(st.lanes), searchStartLane)
       IN [lanes |-> padAndSet(st.lanes, lane, eventEnd),
           minLaneForNextStartTime |-> minLane,
           lastStartTime |-> last,
           maxLaneUsedSoFar |-> Max2(st.maxLaneUsedSoFar, lane),
           out |-> Append(st.out, [event |-> event, lane |-> lane])]

RECURSIVE placeNavUpTo(_, _)
placeNavUpTo(sorted, n) ==
  IF n = 0
  THEN [lanes |-> <<>>, minLaneForNextStartTime |-> 0, lastStartTime |-> -1,
        maxLaneUsedSoFar |-> 1, out |-> <<>>]
  ELSE placeEventNav(placeNavUpTo(sorted, n - 1), sorted[n])

calculateLanePositionsNav(events) ==
  LET sorted == sort(events, TRUE)
  IN placeNavUpTo(sorted, Len(sorted)).out


\* ------------------------------------------------------------ resource classifier
HTTPS_SCHEME == <<"h", "t", "t", "p", "s", ":", "/", "/">>
staticPrefix == <<"h", "t", "t", "p", "s", ":", "/", "/", "s", "t", "a", "t", "i", "c", ".", "p", "a", "r", "a", "s", "t", "o", "r", "a", "g", "e", ".", "c", "o", "m">>
API_SEGMENT == <<"_", "a", "p", "i", "/">>

\* index (1-based) of the first "/" of s at or after position i, Len(s)+1 if none
RECURSIVE firstSlashFrom(_, _)
firstSlashFrom(s, i) ==
  IF i > Len(s) THEN Len(s) + 1
  ELSE IF s[i] = "/" THEN i ELSE firstSlashFrom(s, i + 1)

\* new URL(base).origin for an absolute https URL with a plain host name:
\* <<origin>>, or <<>> where the URL constructor throws
urlOrigin(base) ==
  IF startsWith(toLowerCase(base), HTTPS_SCHEME) /\ Len(base) > Len(HTTPS_SCHEME)
       /\ base[Len(HTTPS_SCHEME) + 1] # "/"
  THEN <<toLowerCase(SubSeq(base, 1, firstSlashFrom(base, Len(HTTPS_SCHEME) + 1) - 1))>>
  ELSE <<>>

\* the candidate prefixes of the site API
apiVariants(base) ==
  LET withSlash == IF endsWith(base, <<"/">>) THEN base ELSE base \o <<"/">>
      withoutSlash == IF endsWith(base, <<"/">>)
                      THEN SubSeq(base, 1, Len(base) - 1) ELSE base
      o == urlOrigin(base)
  IN <<withSlash \o API_SEGMENT, withoutSlash \o <<"/">> \o API_SEGMENT>>
       \o (IF o # <<>> THEN <<o[1] \o <<"/">> \o API_SEGMENT>> ELSE <<>>)

\* getResourceExtras(name, siteModels).resource_subtype; "" is undefined
resourceSubtype(name, base) ==
  IF startsWith(name, staticPrefix) THEN "File"
  ELSE IF base # <<>>
            /\ \E k \in DOMAIN apiVariants(base) : startsWith(name, apiVariants(base)[k])
       THEN "API"
       ELSE ""

getEffectiveType(event, base) ==
  IF event.entryType = "resource"
  THEN LET subtype == resourceSubtype(event.name, base)
       IN IF subtype = "File" THEN "resource:file"
          ELSE IF subtype = "API" THEN "resource:api"
          ELSE "resource"
  ELSE event.entryType

\* ------------------------------------------------------------ URL and string helpers
\* String.prototype.indexOf(sub): 0-based index of the first occurrence, or -1
indexOf(s, sub) ==
  LET hits == {i \in 0..(Len(s) - Len(sub)) : SubSeq(s, i + 1, i + Len(sub)) = sub}
  IN IF hits = {} THEN -1 ELSE CHOOSE i \in hits : \A j \in hits : i <= j

\* String.prototype.lastIndexOf(sub)
lastIndexOf(s, sub) ==
  LET hits == {i \in 0..(Len(s) - Len(sub)) : SubSeq(s, i + 1, i + Len(sub)) = sub}
  IN IF hits = {} THEN -1 ELSE CHOOSE i \in hits : \A j \in hits : i >= j

\* String.prototype.split(ch) for a one-character separator
RECURSIVE split(_, _)
split(s, ch) ==
  LET i == indexOf(s, <<ch>>)
  IN IF i = -1 THEN <<s>>
     ELSE <<SubSeq(s, 1, i)>> \o split(SubSeq(s, i + 2, Len(s)), ch)

\* .filter(Boolean) over strings: the non-empty ones
filterBoolean(segs) ==
  LET nonEmpty(x) == x # <<>>
  IN SelectSeq(segs, nonEmpty)

\* String.prototype.trim over the space character
RECURSIVE trim(_)
trim(s) ==
  IF s = <<>> THEN s
  ELSE IF Head(s) = " " THEN trim(Tail(s))
  ELSE IF s[Len(s)] = " " THEN trim(SubSeq(s, 1, Len(s) - 1))
  ELSE s

\* name.replace(/^\/+/, ''): the leading slashes removed
RECURSIVE stripLeadingSlashes(_)
stripLeadingSlashes(s) ==
  IF s # <<>> /\ Head(s) = "/" THEN stripLeadingSlashes(Tail(s)) ELSE s

\* new URL(s) for an https URL with a plain host name, no port, no credentials
\* and no dot segments: <<>> where the constructor throws, else
\* <<[origin, hostname, pathname]>>
parseUrl(s) ==
  LET hostFrom == Len(HTTPS_SCHEME) + 1
      stops == {i \in hostFrom..Len(s) : s[i] \in {"/", "?", "#"}}
      hostEnd == IF stops = {} THEN Len(s) + 1
                 ELSE CHOOSE i \in stops : \A j \in stops : i <= j
      pathStops == {i \in hostEnd..Len(s) : s[i] \in {"?", "#"}}
      pathEnd == IF pathStops = {} THEN Len(s) + 1
                 ELSE CHOOSE i \in pathStops : \A j \in pathStops : i <= j
      hostname == toLowerCase(SubSeq(s, hostFrom, hostEnd - 1))
      path == SubSeq(s, hostEnd, pathEnd - 1)
  IN IF startsWith(toLowerCase(s), HTTPS_SCHEME) /\ hostname # <<>>
     THEN <<[origin |-> HTTPS_SCHEME \o hostname,
             hostname |-> hostname,
             pathname |-> IF path = <<>> THEN <<"/">> ELSE path]>>
     ELSE <<>>

\* ------------------------------------------------------------ getResourceExtras
\* a ResourceExtras object: an absent field is <<>>, a present one is <<value>>
NoExtras ==
  [resource_subtype |-> <<>>, file_type |-> <<>>, service |-> <<>>,
   file_name |-> <<>>, file_extension |-> <<>>, api_name |-> <<>>]

API_MARKER == <<"/", "_", "a", "p", "i", "/">>
SERVICES == <<"s", "e", "r", "v", "i", "c", "e", "s">>
UNPKG == <<"u", "n", "p", "k", "g">>
OTHER_SERVICE == <<"o", "t", "h", "e", "r">>
WIXAPPCLOUD_SUFFIX == <<".", "w", "i", "x", "a", "p", "p", "c", "l", "o", "u", "d", ".", "c", "o", "m">>
BROWSER_ASSETS == <<"/", "b", "r", "o", "w", "s", "e", "r", "/", "a", "s", "s", "e", "t", "s">>

\* the variants of the API prefix, in the order they are pushed
apiPrefixes(base) ==
  LET withSlash == IF endsWith(base, <<"/">>) THEN base ELSE base \o <<"/">>
      withoutSlash == IF endsWith(base, <<"/">>)
                      THEN SubSeq(base, 1, Len(base) - 1) ELSE base
      bu == parseUrl(base)
  IN <<withSlash \o API_SEGMENT, withoutSlash \o API_MARKER>>
       \o (IF bu # <<>> THEN <<bu[1].origin \o API_MARKER>> ELSE <<>>)

\* the first path segment after '/_api/', <<>> when there is none
apiNameIn(text) ==
  LET idx == indexOf(text, API_MARKER)
      seg == split(SubSeq(text, idx + 7, Len(text)), "/")[1]
  IN IF idx >= 0 /\ seg # <<>> THEN <<seg>> ELSE <<>>

\* the body of the loop over the variants when one of them is a prefix of name
apiExtras(name) ==
  LET u == parseUrl(name)
  IN [NoExtras EXCEPT
        !.resource_subtype = <<"API">>,
        !.api_name = IF u # <<>> THEN apiNameIn(u[1].pathname) ELSE apiNameIn(name)]

isApiName(name, base) ==
  /\ base # <<>>
  /\ \E k \in DOMAIN apiPrefixes(base) : startsWith(name, apiPrefixes(base)[k])

\* file_name and file_extension of the last path segment
fileNameFields(extras, pathSegs) ==
  LET fileName == IF pathSegs = <<>> THEN <<>> ELSE trim(pathSegs[Len(pathSegs)])
      dotIdx == lastIndexOf(fileName, <<".">>)
  IN IF fileName = <<>> THEN extras
     ELSE [extras EXCEPT
             !.file_name = <<fileName>>,
             !.file_extension =
               IF dotIdx > 0 /\ dotIdx < Len(fileName) - 1
               THEN <<toLowerCase(split(SubSeq(fileName, dotIdx + 2, Len(fileName)),
                                        "?")[1])>>
               ELSE <<>>]

\* the File branch of resourceUtils.getResourceExtras
staticFileExtras(name) ==
  LET u == parseUrl(name)
      file == [NoExtras EXCEPT !.resource_subtype = <<"File">>]
  IN IF u = <<>> THEN file
     ELSE LET pathSegs == filterBoolean(split(u[1].pathname, "/"))
              typed == IF Len(pathSegs) >= 1
                       THEN [file EXCEPT
                               !.file_type = <<pathSegs[1]>>,
                               !.service = IF pathSegs[1] = SERVICES /\ Len(pathSegs) >= 2
                                           THEN <<pathSegs[2]>> ELSE <<>>]
                       ELSE file
          IN fileNameFields(typed, pathSegs)

\* resourceUtils.getResourceExtras: the static prefix is tested first
getResourceExtras(name, base) ==
  IF startsWith(name, staticPrefix) THEN staticFileExtras(name)
  ELSE IF isApiName(name, base) THEN apiExtras(name)
  ELSE NoExtras

\* the extensions of fileExtensionPattern
FileExtensions ==
  { <<"j", "s">>, <<"c", "s", "s">>, <<"w", "o", "f", "f">>, <<"w", "o", "f", "f", "2">>, <<"t", "t", "f">>, <<"o", "t", "f">>, <<"e", "o", "t">>, <<"s", "v", "g">>,
    <<"p", "n", "g">>, <<"j", "p", "g">>, <<"j", "p", "e", "g">>, <<"g", "i", "f">>, <<"w", "e", "b", "p">>, <<"i", "c", "o">>, <<"j", "s", "o", "n">>, <<"m", "a", "p">>,
    <<"t", "x", "t">>, <<"x", "m", "l">>, <<"h", "t", "m", "l">>, <<"h", "t", "m">>, <<"p", "d", "f">>, <<"z", "i", "p">>, <<"g", "z">>, <<"w", "a", "s", "m">> }

\* fileExtensionPattern.test(name): '.' and an extension, in any letter case,
\* at the end of the name or right before a '?'
hasFileExtension(name) ==
  \E ext \in FileExtensions :
    \E i \in 1..(Len(name) - Len(ext)) :
      /\ toLowerCase(SubSeq(name, i, i + Len(ext))) = <<".">> \o ext
      /\ \/ i + Len(ext) = Len(name)
         \/ name[i + Len(ext) + 1] = "?"

\* the File branch of the variant that classifies by extension
extensionFileExtras(name) ==
  LET u == parseUrl(name)
      file == [NoExtras EXCEPT !.resource_subtype = <<"File">>]
  IN IF u = <<>> THEN file
     ELSE LET pathSegs == filterBoolean(split(u[1].pathname, "/"))
              named == fileNameFields(file, pathSegs)
          IN IF startsWith(name, staticPrefix)
             THEN IF Len(pathSegs) >= 1
                  THEN [named EXCEPT
                          !.file_type = <<pathSegs[1]>>,
                          !.service =
                            IF pathSegs[1] = UNPKG THEN <<UNPKG>>
                            ELSE IF pathSegs[1] = SERVICES /\ Len(pathSegs) >= 2
                            THEN <<pathSegs[2]>>
                            ELSE <<pathSegs[1]>>]
                  ELSE named
             ELSE IF endsWith(u[1].hostname, WIXAPPCLOUD_SUFFIX)
                       /\ startsWith(u[1].pathname, BROWSER_ASSETS)
             THEN [named EXCEPT !.service = <<split(u[1].hostname, ".")[1]>>]
             ELSE [named EXCEPT !.service = <<OTHER_SERVICE>>]

\* the getResourceExtras that tests the API prefixes first
getResourceExtrasApiFirst(name, base) ==
  IF isApiName(name, base) THEN apiExtras(name)
  ELSE IF hasFileExtension(name) THEN extensionFileExtras(name)
  ELSE NoExtras

\* getEffectiveType over the getResourceExtras that tests the API prefixes first
getEffectiveTypeApiFirst(event, base) ==
  IF event.entryType = "resource"
  THEN LET ex == getResourceExtrasApiFirst(event.name, base)
       IN IF ex.resource_subtype = <<"File">> THEN "resource:file"
          ELSE IF ex.resource_subtype = <<"API">> THEN "resource:api"
          ELSE "resource"
  ELSE event.entryType

\* getDisplayResourceName(name, externalBaseUrl)
displayVariants(base) ==
  LET withSlash == IF endsWith(base, <<"/">>) THEN base ELSE base \o <<"/">>
      withoutSlash == IF endsWith(base, <<"/">>)
                      THEN SubSeq(base, 1, Len(base) - 1) ELSE base
      u == parseUrl(base)
  IN <<withSlash, withoutSlash>>
       \o (IF u # <<>> THEN <<u[1].origin, u[1].origin \o <<"/">>>> ELSE <<>>)

RECURSIVE displayNameFrom(_, _, _)
displayNameFrom(name, variants, k) ==
  IF k > Len(variants) THEN name
  ELSE IF startsWith(name, variants[k])
       THEN LET rest == stripLeadingSlashes(SubSeq(name, Len(variants[k]) + 1, Len(name)))
            IN IF rest = <<>> THEN <<"/">> ELSE rest
       ELSE displayNameFrom(name, variants, k + 1)

\* a display name that tries the base variants only, not the origin ones
getDisplayResourceNameBaseOnly(name, base) ==
  IF base = <<>> THEN name
  ELSE displayNameFrom(name, SubSeq(displayVariants(base), 1, 2), 1)

getDisplayResourceName(name, base) ==
  IF base = <<>> THEN name ELSE displayNameFrom(name, displayVariants(base), 1)

\* ------------------------------------------------------------ String(value)
DigitChars == <<"0", "1", "2", "3", "4", "5", "6", "7", "8", "9">>

RECURSIVE naturalToString(_)
naturalToString(n) ==
  IF n < 10 THEN <<DigitChars[n + 1]>>
  ELSE naturalToString(n \div 10) \o <<DigitChars[(n % 10) + 1]>>

numberToString(n) == IF n < 0 THEN <<"-">> \o naturalToString(-n) ELSE naturalToString(n)

EntryTypeChars ==
  <<[type |-> "mark", chars |-> <<"m", "a", "r", "k">>],
     [type |-> "SSR", chars |-> <<"S", "S", "R">>],
     [type |-> "resource", chars |-> <<"r", "e", "s", "o", "u", "r", "c", "e">>],
     [type |-> "paint", chars |-> <<"p", "a", "i", "n", "t">>],
     [type |-> "measure", chars |-> <<"m", "e", "a", "s", "u", "r", "e">>],
     [type |-> "navigation", chars |-> <<"n", "a", "v", "i", "g", "a", "t", "i", "o", "n">>],
     [type |-> "navigation-phase", chars |-> <<"n", "a", "v", "i", "g", "a", "t", "i", "o", "n", "-", "p", "h", "a", "s", "e">>],
     [type |-> "largest-contentful-paint", chars |-> <<"l", "a", "r", "g", "e", "s", "t", "-", "c", "o", "n", "t", "e", "n", "t", "f", "u", "l", "-", "p", "a", "i", "n", "t">>]>>

entryTypeToString(t) ==
  (CHOOSE r \in Range(EntryTypeChars) : r.type = t).chars

booleanToString(b) == IF b THEN <<"t", "r", "u", "e">> ELSE <<"f", "a", "l", "s", "e">>

OBJECT_STRING == <<"[", "o", "b", "j", "e", "c", "t", " ", "O", "b", "j", "e", "c", "t", "]">>

\* the strings String(val) of Object.values(e)
valueStrings(e) ==
  {e.name, entryTypeToString(e.entryType),
   numberToString(e.startTime), numberToString(e.duration)}
  \cup {numberToString(e.nav[f]) : f \in DOMAIN e.nav}
  \cup {numberToString(e.originalIndex[i]) : i \in DOMAIN e.originalIndex}
  \cup {booleanToString(e.isServer[i]) : i \in DOMAIN e.isServer}
  \cup {booleanToString(e.isCombined[i]) : i \in DOMAIN e.isCombined}
  \cup {OBJECT_STRING : i \in DOMAIN e.endEvent}
  \cup {booleanToString(e.navigationPhase[i]) : i \in DOMAIN e.navigationPhase}

\* the entry 'all' of selectedMarkNames (mark names are strings of the trace)
ALL_MARKS == <<"a", "l", "l">>

\* ------------------------------------------------------------ derived values
\* useEventProcessing(options): every value below is a useMemo over the options
processedEventsOf(o) == processEvents(o.data, o.ssrTimeOffset)

isStartedEnded(name) ==
  LET nameLower == toLowerCase(name)
  IN \/ endsWith(nameLower, STARTED)
     \/ endsWith(nameLower, ENDED)
     \/ endsWith(nameLower, FINISHED)

\* a blacklist that compares the filter text as typed
matchesAnyDomainFilterCaseSensitive(o, e) ==
  \E k \in DOMAIN o.resourceDomainFilters :
    includes(toLowerCase(e.name), o.resourceDomainFilters[k])

\* o.resourceDomainFilters.some(f => nameLower.includes(f.toLowerCase()))
matchesAnyDomainFilter(o, e) ==
  \E k \in DOMAIN o.resourceDomainFilters :
    includes(toLowerCase(e.name), toLowerCase(o.resourceDomainFilters[k]))

timelineFilteredEventsOf(o) ==
  LET keep(e) ==
        /\ ~(e.duration <= 0)
        /\ ~(o.minDurationMs > 0 /\ e.duration < o.minDurationMs)
        /\ ~(~o.showNegativeTimestamps /\ e.startTime < 0)
        /\ ~(Len(o.resourceDomainFilters) > 0 /\ e.entryType = "resource"
               /\ matchesAnyDomainFilter(o, e))
      beforeEnd(e) == o.graphEndTime = <<>> \/ e.startTime <= o.graphEndTime[1]
      selected(e) == getEffectiveType(e, o.externalBaseUrl) \in o.timelineFilters
      eventsWithDuration == SelectSeq(SelectSeq(processedEventsOf(o), keep), beforeEnd)
  IN IF "all" \in o.timelineFilters THEN eventsWithDuration
     ELSE SelectSeq(eventsWithDuration, selected)

\* milestones that ignore the negative-timestamp switch
timelineMilestoneEventsShowingNegative(o) ==
  LET keep(e) ==
        /\ ~(e.duration > 0)
        /\ \/ e.entryType = "paint"
           \/ e.entryType = "largest-contentful-paint"
           \/ (e.entryType = "mark" /\ ~isStartedEnded(e.name))
      beforeEnd(e) == o.graphEndTime = <<>> \/ e.startTime <= o.graphEndTime[1]
      selected(e) == getEffectiveType(e, o.externalBaseUrl) \in o.timelineFilters
      markSelected(e) == e.entryType # "mark" \/ e.name \in o.selectedMarkNames
      milestones == SelectSeq(SelectSeq(processEvents(o.data, o.ssrTimeOffset), keep),
                              beforeEnd)
      filtered == IF "all" \notin o.timelineFilters
                  THEN SelectSeq(milestones, selected) ELSE milestones
  IN IF ALL_MARKS \notin o.selectedMarkNames
     THEN SelectSeq(filtered, markSelected) ELSE filtered

timelineMilestoneEventsOf(o) ==
  LET keep(e) ==
        /\ ~(~o.showNegativeTimestamps /\ e.startTime < 0)
        /\ ~(e.duration > 0)
        /\ \/ e.entryType = "paint"
           \/ e.entryType = "largest-contentful-paint"
           \/ (e.entryType = "mark" /\ ~isStartedEnded(e.name))
      beforeEnd(e) == o.graphEndTime = <<>> \/ e.startTime <= o.graphEndTime[1]
      selected(e) == getEffectiveType(e, o.externalBaseUrl) \in o.timelineFilters
      markSelected(e) == e.entryType # "mark" \/ e.name \in o.selectedMarkNames
      milestones == SelectSeq(SelectSeq(processedEventsOf(o), keep), beforeEnd)
      filtered == IF "all" \notin o.timelineFilters
                  THEN SelectSeq(milestones, selected) ELSE milestones
  IN IF ALL_MARKS \notin o.selectedMarkNames
     THEN SelectSeq(filtered, markSelected) ELSE filtered

tableFilteredEventsOf(o) ==
  LET notBlacklisted(e) == e.entryType # "resource" \/ ~matchesAnyDomainFilter(o, e)
      selected(e) == getEffectiveType(e, o.externalBaseUrl) \in o.tableFilters
      searchLower == toLowerCase(o.tableSearchTerm)
      found(e) == \E v \in valueStrings(e) : includes(toLowerCase(v), searchLower)
      events1 == IF Len(o.resourceDomainFilters) > 0
                 THEN SelectSeq(processedEventsOf(o), notBlacklisted)
                 ELSE processedEventsOf(o)
      events2 == IF "all" \notin o.tableFilters
                 THEN SelectSeq(events1, selected) ELSE events1
  IN IF o.tableSearchTerm # <<>> THEN SelectSeq(events2, found) ELSE events2

resourceEventsOf(o) ==
  LET isResource(e) == e.entryType = "resource"
      notBlacklisted(e) == ~matchesAnyDomainFilter(o, e)
      events == SelectSeq(processedEventsOf(o), isResource)
  IN IF Len(o.resourceDomainFilters) > 0
     THEN SelectSeq(events, notBlacklisted) ELSE events

\* ---- the inline derivations of PerformanceToolPage
processedEventsPageOf(o) == processedEventsInline(o.data, o.ssrTimeOffset)

timelineFilteredEventsPageOf(o) ==
  LET keep(e) ==
        /\ ~(e.duration <= 0)
        /\ ~(o.minDurationMs > 0 /\ e.duration < o.minDurationMs)
        /\ ~(~o.showNegativeTimestamps /\ e.startTime < 0)
      beforeEnd(e) == o.graphEndTime = <<>> \/ e.startTime <= o.graphEndTime[1]
      selected(e) == e.entryType \in o.timelineFilters
      eventsWithDuration == SelectSeq(SelectSeq(processedEventsPageOf(o), keep), beforeEnd)
  IN IF "all" \in o.timelineFilters THEN eventsWithDuration
     ELSE SelectSeq(eventsWithDuration, selected)

timelineMilestoneEventsPageOf(o) ==
  LET keep(e) ==
        /\ ~(~o.showNegativeTimestamps /\ e.startTime < 0)
        /\ ~(e.duration > 0)
        /\ ~(o.minDurationMs > 0 /\ e.duration < o.minDurationMs)
        /\ \/ e.entryType = "paint"
           \/ e.entryType = "largest-contentful-paint"
           \/ (e.entryType = "mark" /\ ~isStartedEnded(e.name))
      beforeEnd(e) == o.graphEndTime = <<>> \/ e.startTime <= o.graphEndTime[1]
      selected(e) == e.entryType \in o.timelineFilters
      markSelected(e) == e.entryType # "mark" \/ e.name \in o.selectedMarkNames
      milestones == SelectSeq(SelectSeq(processedEventsPageOf(o), keep), beforeEnd)
      filtered == IF "all" \notin o.timelineFilters
                  THEN SelectSeq(milestones, selected) ELSE milestones
  IN IF ALL_MARKS \notin o.selectedMarkNames
     THEN SelectSeq(filtered, markSelected) ELSE filtered

tableFilteredEventsPageOf(o) ==
  LET longEnough(e) == e.duration >= o.minDurationMs
      selected(e) == e.entryType \in o.tableFilters
      searchLower == toLowerCase(o.tableSearchTerm)
      found(e) == \E v \in valueStrings(e) : includes(toLowerCase(v), searchLower)
      events1 == IF o.minDurationMs > 0
                 THEN SelectSeq(processedEventsPageOf(o), longEnough)
                 ELSE processedEventsPageOf(o)
      events2 == IF "all" \notin o.tableFilters
                 THEN SelectSeq(events1, selected) ELSE events1
  IN IF o.tableSearchTerm # <<>> THEN SelectSeq(events2, found) ELSE events2

\* ---- the derived values of the current state
options ==
  [data |-> data, ssrTimeOffset |-> ssrTimeOffset,
   timelineFilters |-> timelineFilters, selectedMarkNames |-> selectedMarkNames,
   tableFilters |-> tableFilters, tableSearchTerm |-> tableSearchTerm,
   showNegativeTimestamps |-> showNegativeTimestamps,
   graphEndTime |-> graphEndTime, minDurationMs |-> minDurationMs,
   resourceDomainFilters |-> resourceDomainFilters,
   externalBaseUrl |-> externalBaseUrl]

processedEvents == processedEventsOf(options)
timelineFilteredEvents == timelineFilteredEventsOf(options)
timelineMilestoneEvents == timelineMilestoneEventsOf(options)
tableFilteredEvents == tableFilteredEventsOf(options)
resourceEvents == resourceEventsOf(options)
processedEventsPage == processedEventsPageOf(options)
timelineFilteredEventsPage == timelineFilteredEventsPageOf(options)
timelineMilestoneEventsPage == timelineMilestoneEventsPageOf(options)
tableFilteredEventsPage == tableFilteredEventsPageOf(options)

\* the Set markNames of standaloneMarkNames; the hook returns its members as
\* a sorted array
standaloneMarkNamesOf(o) ==
  LET isStandalone(e) ==
        /\ e.entryType = "mark" /\ e.duration = 0 /\ e.startTime >= 0
        /\ ~isStartedEnded(e.name)
  IN  { e.name : e \in { x \in Range(processedEventsOf(o)) : isStandalone(x) } }

\* ---- the lists of the inline page that its select-all buttons use
\* eventTypes.map(et => et.type)
eventTypesPageOf(o) == { e.entryType : e \in Range(processedEventsPageOf(o)) }

standaloneMarkNamesPageOf(o) ==
  LET isStandalone(e) ==
        /\ e.entryType = "mark" /\ e.duration = 0 /\ e.startTime >= 0
        /\ ~isStartedEnded(e.name)
  IN  { e.name : e \in { x \in Range(processedEventsPageOf(o)) : isStandalone(x) } }

\* ---- the resources view
\* Array.from(new Set(resourceEvents.map(r => getResourceExtras(r.name,
\* undefined)[f]).filter(Boolean)))
\* empty: the empty string in the form of the values of f
extrasValues(rs, f, empty) ==
  { getResourceExtras(rs[i].name, <<>>)[f][1] :
      i \in { j \in DOMAIN rs :
                /\ getResourceExtras(rs[j].name, <<>>)[f] # <<>>
                /\ getResourceExtras(rs[j].name, <<>>)[f][1] # empty } }

fileTypes(rs) == extrasValues(rs, "file_type", <<>>)
services(rs) == extrasValues(rs, "service", <<>>)
extensions(rs) == extrasValues(rs, "file_extension", <<>>)
subtypes(rs) == extrasValues(rs, "resource_subtype", "")

\* one test of filteredResources: the selection has 'all', or the row has the
\* value and the selection has it
passesResourceFilter(selection, all, v, empty) ==
  \/ all \in selection
  \/ (v # <<>> /\ v[1] # empty /\ v[1] \in selection)

filteredResources(rs, bySubtype, byFileType, byService, byExtension) ==
  LET keep(r) ==
        LET ex == getResourceExtras(r.name, <<>>)
        IN  /\ passesResourceFilter(bySubtype, "all", ex.resource_subtype, "")
            /\ passesResourceFilter(byFileType, ALL_MARKS, ex.file_type, <<>>)
            /\ passesResourceFilter(byService, ALL_MARKS, ex.service, <<>>)
            /\ passesResourceFilter(byExtension, ALL_MARKS, ex.file_extension, <<>>)
  IN  SelectSeq(rs, keep)

\* the body of the four toggleResource... functions
toggledResource(selection, all, v) ==
  LET ns == selection \ {all}
      flipped == IF v \in ns THEN ns \ {v} ELSE ns \cup {v}
  IN  IF flipped = {} THEN {all} ELSE flipped

\* ---- bounds
RECURSIVE maxOf(_)
maxOf(S) == LET x == CHOOSE x \in S : TRUE
            IN IF S = {x} THEN x ELSE Max2(x, maxOf(S \ {x}))

RECURSIVE minOf(_)
minOf(S) == LET x == CHOOSE x \in S : TRUE
            IN IF S = {x} THEN x ELSE Min2(x, minOf(S \ {x}))

\* bounds whose minimum is the smallest startTime, not capped at 0
calculateTimelineBoundsUncapped(filtered, milestoneEvents, showNegative) ==
  LET allEvents == filtered \o milestoneEvents
  IN IF Len(allEvents) = 0 THEN [min |-> 0, max |-> 1000]
     ELSE [min |-> IF showNegative
                   THEN minOf({allEvents[i].startTime : i \in DOMAIN allEvents})
                   ELSE 0,
           max |-> maxOf({allEvents[i].startTime + allEvents[i].duration :
                            i \in DOMAIN allEvents})]

calculateTimelineBounds(filtered, milestoneEvents, showNegative) ==
  LET allEvents == filtered \o milestoneEvents
  IN IF Len(allEvents) = 0 THEN [min |-> 0, max |-> 1000]
     ELSE [min |-> IF showNegative
                   THEN minOf({0} \cup {allEvents[i].startTime : i \in DOMAIN allEvents})
                   ELSE 0,
           max |-> maxOf({allEvents[i].startTime + allEvents[i].duration :
                            i \in DOMAIN allEvents})]

timelineBounds ==
  calculateTimelineBounds(timelineFilteredEvents, timelineMilestoneEvents,
                          showNegativeTimestamps)

\* ------------------------------------------------------------ inputs
NAME_A == <<"a">>

\* names of the reconciler inputs
ReconcileNames ==
  { NAME_A \o STARTED,
    <<"A">> \o <<" ", "E", "n", "d", "e", "d">>,
    NAME_A \o FINISHED,
    NAME_A \o STARTED \o SERVER_SUFFIX,
    NAME_A \o ENDED \o SERVER_SUFFIX,
    NAME_A \o SERVER_KEY \o STARTED,
    NAME_A }

ReconcileKinds ==
  { [entryType |-> "mark", startTime |-> 1],
    [entryType |-> "mark", startTime |-> 3],
    [entryType |-> "SSR", startTime |-> 2] }

ReconcileEntries ==
  { Entry(n, k.entryType, k.startTime, 0, NoNav) :
      n \in ReconcileNames, k \in ReconcileKinds }

\* entries of two pairing keys, a and a_server, with marks and SSR entries on
\* both sides of a pair
PairingEntries ==
  { Entry(NAME_A \o STARTED, "mark", 3, 0, NoNav),
    Entry(NAME_A \o STARTED, "SSR", 1, 0, NoNav),
    Entry(<<"A">> \o <<" ", "E", "n", "d", "e", "d">>, "mark", 5, 0, NoNav),
    Entry(NAME_A \o FINISHED, "SSR", 2, 0, NoNav),
    Entry(NAME_A \o STARTED \o SERVER_SUFFIX, "mark", 4, 0, NoNav),
    Entry(NAME_A \o ENDED \o SERVER_SUFFIX, "SSR", 6, 0, NoNav),
    Entry(NAME_A, "mark", 0, 2, NoNav) }

\* navigation timings: the request and response fields absent, 0 or later, the
\* load event always from 4 to 6
ABSENT == 0 - 1
NavFieldValues == {ABSENT, 0, 1, 3}

NavTiming(requestStart, responseStart, responseEnd) ==
  LET given == [requestStart  |-> requestStart,
                responseStart |-> responseStart,
                responseEnd   |-> responseEnd,
                loadEventStart |-> 4,
                loadEventEnd   |-> 6]
      present == {f \in DOMAIN given : given[f] # ABSENT}
  IN [f \in present |-> given[f]]

NAME_NAV == <<"n">>

NavigationEntries ==
  { Entry(NAME_NAV, "navigation", 0, 9, NavTiming(a, b, c)) :
      a \in NavFieldValues, b \in NavFieldValues, c \in NavFieldValues }
  \cup { Entry(NAME_NAV \o STARTED, "navigation", 0, 9, NavTiming(1, 3, 3)),
         Entry(NAME_A, "mark", 2, 0, NoNav) }

SsrOffsets == {0, 5}

\* entries of the filter layer inputs
NAME_ADS == <<"A", "d", "s">>
NAME_M == <<"m">>

FilterEntries ==
  { Entry(NAME_ADS, "resource", 1, 2, NoNav),
    Entry(<<"c", "d", "n">>, "resource", -1, 4, NoNav),
    Entry(staticPrefix \o <<"/", "f">>, "resource", 1, 2, NoNav),
    Entry(NAME_M, "mark", 1, 0, NoNav),
    Entry(NAME_M, "mark", -1, 0, NoNav),
    Entry(<<"f", "p">>, "paint", 2, 0, NoNav),
    Entry(<<"x">>, "measure", 0, 4, NoNav),
    Entry(NAME_A \o STARTED, "mark", 1, 0, NoNav),
    Entry(NAME_A \o ENDED, "mark", 3, 0, NoNav) }

MinDurations == {0, 3}
GraphEndTimes == {<<>>, <<1>>}
FilterTypes == {"all", "mark", "resource"}
MarkNames == {ALL_MARKS, NAME_M}
SearchTerms == {<<>>, <<"M">>}
DomainInputs == {<<"a", "D">>}

\* resource names and site base URLs handed to the classifier
BASE_A == <<"h", "t", "t", "p", "s", ":", "/", "/", "a", ".", "i", "o">>
BASE_REL == <<"/", "s">>

BASE_EXAMPLE == <<"h", "t", "t", "p", "s", ":", "/", "/", "e", "x", "a", "m", "p", "l", "e", ".", "c", "o", "m", "/">>
NAME_EXAMPLE == <<"h", "t", "t", "p", "s", ":", "/", "/", "e", "x", "a", "m", "p", "l", "e", ".", "c", "o", "m", "/", "s", "t", "y", "l", "e", "s", "/", "m", "a", "i", "n", ".", "c", "s", "s">>

BaseUrls ==
  { <<>>, BASE_EXAMPLE, BASE_A, BASE_A \o <<"/">>, BASE_A \o <<"/", "p">>, staticPrefix, BASE_REL }

ResourceNames ==
  { NAME_EXAMPLE,
    BASE_A \o <<"/", "_", "a", "p", "i", "/", "x", "/", "y">>,
    BASE_A \o <<"/", "_", "a", "p", "i", "/", "f", ".", "j", "s">>,
    BASE_A \o <<"/", "p", "/", "_", "a", "p", "i", "/">>,
    BASE_A \o <<"/", "p", "/", "c", ".", "C", "S", "S">>,
    BASE_A \o <<"/", "/", "q">>,
    BASE_A,
    BASE_A \o <<".", "b", ".", "i", "o", "/", "x">>,
    BASE_REL \o <<"/", "_", "a", "p", "i", "/", "z">>,
    staticPrefix \o <<"/", "_", "a", "p", "i", "/", "x">>,
    staticPrefix \o <<"/", "s", "e", "r", "v", "i", "c", "e", "s", "/", "s", "/", "f", ".", "J", "S">>,
    <<"h", "t", "t", "p", "s", ":", "/", "/", "b", ".", "i", "o", "/", "i", ".", "p", "n", "g", "?", "v">> }

\* events handed to the timeline view
LaneStarts == -3..1
LaneDurations == {1, 2}
LaneTypes == {"measure", "navigation", "navigation-phase"}
LaneEntries ==
  { Entry(<<"x">>, t, st, d, NoNav) :
      t \in LaneTypes, st \in LaneStarts, d \in LaneDurations }

\* ------------------------------------------------------------ zoom
\* zoom levels are held in tenths, so that 0.2 is the integer 2
ZOOM_DEFAULT == 10
ZOOM_MIN == 5
ZOOM_MAX == 100
ZOOM_STEP == 2

\* Math.max(0.5, Math.min(10, z))
clampZoom(z) == Max2(ZOOM_MIN, Min2(ZOOM_MAX, z))

\* ------------------------------------------------------------ JSON values
JsonNumber(v) == [type |-> "number", number |-> v]
JsonString(v) == [type |-> "string", string |-> v]
JsonBoolean(v) == [type |-> "boolean", boolean |-> v]
JsonNull == [type |-> "null"]
\* a: a sequence of JSON values
JsonArray(a) == [type |-> "array", items |-> a]
\* o: a record of JSON values
JsonObject(o) == [type |-> "object", fields |-> o]

\* the text JSON.stringify(v), and a stored text that JSON.parse rejects
JsonText(v) == [valid |-> TRUE, parsed |-> v]
NOT_JSON == [valid |-> FALSE]

\* Array.from(set): the members of the set in one order
RECURSIVE ArrayFrom(_)
ArrayFrom(S) ==
  IF S = {} THEN <<>>
  ELSE LET x == CHOOSE x \in S : TRUE
       IN  <<x>> \o ArrayFrom(S \ {x})

\* JSON.stringify of an array of strings
stringArray(a) == JsonArray([i \in 1..Len(a) |-> JsonString(a[i])])

\* new Set(array)
setFromArray(j) == {j.items[i].string : i \in DOMAIN j.items}

\* array.filter((s) => typeof s === 'string')
stringsOf(j) ==
  LET kept == SelectSeq(j.items, LAMBDA v : v.type = "string")
  IN  [i \in 1..Len(kept) |-> kept[i].string]

\* ------------------------------------------------------------ persisted settings
\* the state of the hook that the save effect persists
filterState ==
  [ timelineFilters        |-> timelineFilters,
    selectedMarkNames      |-> selectedMarkNames,
    tableFilters           |-> tableFilters,
    showNegativeTimestamps |-> showNegativeTimestamps,
    ssrTimeOffset          |-> ssrTimeOffset,
    graphEndTime           |-> graphEndTime,
    minDurationMs          |-> minDurationMs,
    resourceDomainFilters  |-> resourceDomainFilters,
    zoomLevel              |-> zoomLevel,
    panOffset              |-> panOffset,
    tableSearchTerm        |-> tableSearchTerm,
    resourceFilterFileTypes  |-> resourceFilterFileTypes,
    resourceFilterServices   |-> resourceFilterServices,
    resourceFilterExtensions |-> resourceFilterExtensions,
    resourceFilterSubtypes   |-> resourceFilterSubtypes,
    settingsLoaded         |-> settingsLoaded ]

\* the useState defaults
defaultState ==
  [ timelineFilters        |-> {"all"},
    selectedMarkNames      |-> {ALL_MARKS},
    tableFilters           |-> {"all"},
    showNegativeTimestamps |-> FALSE,
    ssrTimeOffset          |-> 0,
    graphEndTime           |-> <<>>,
    minDurationMs          |-> 0,
    resourceDomainFilters  |-> <<>>,
    zoomLevel              |-> ZOOM_DEFAULT,
    panOffset              |-> 0,
    tableSearchTerm        |-> <<>>,
    resourceFilterFileTypes  |-> {ALL_MARKS},
    resourceFilterServices   |-> {ALL_MARKS},
    resourceFilterExtensions |-> {ALL_MARKS},
    resourceFilterSubtypes   |-> {"all"},
    settingsLoaded         |-> FALSE ]

\* the payload object of the save effect
payloadOf(st) ==
  JsonObject(
    [ timelineFilters        |-> stringArray(ArrayFrom(st.timelineFilters)),
      selectedMarkNames      |-> stringArray(ArrayFrom(st.selectedMarkNames)),
      tableFilters           |-> stringArray(ArrayFrom(st.tableFilters)),
      showNegativeTimestamps |-> JsonBoolean(st.showNegativeTimestamps),
      ssrTimeOffset          |-> JsonNumber(st.ssrTimeOffset),
      graphEndTime           |-> IF st.graphEndTime = <<>> THEN JsonNull
                                 ELSE JsonNumber(st.graphEndTime[1]),
      minDurationMs          |-> JsonNumber(st.minDurationMs),
      resourceDomainFilters  |-> stringArray(st.resourceDomainFilters),
      zoomLevel              |-> JsonNumber(st.zoomLevel),
      panOffset              |-> JsonNumber(st.panOffset),
      tableSearchTerm        |-> JsonString(st.tableSearchTerm),
      resourceFilterFileTypes  |-> stringArray(ArrayFrom(st.resourceFilterFileTypes)),
      resourceFilterServices   |-> stringArray(ArrayFrom(st.resourceFilterServices)),
      resourceFilterExtensions |-> stringArray(ArrayFrom(st.resourceFilterExtensions)),
      resourceFilterSubtypes   |-> stringArray(ArrayFrom(st.resourceFilterSubtypes)) ])

\* the fields of a parsed value; reading a field of a number or a string
\* gives undefined
fieldsOf(parsed) == IF parsed.type = "object" THEN parsed.fields ELSE <<>>

\* typeof parsed[f] === t, Array.isArray(parsed[f]), parsed[f] === null
hasField(parsed, f, t) ==
  /\ f \in DOMAIN fieldsOf(parsed)
  /\ fieldsOf(parsed)[f].type = t

\* the state after the setters that the load effect calls for a parsed value
restored(st, parsed) ==
  LET p == fieldsOf(parsed)
  IN  [ timelineFilters |->
          IF hasField(parsed, "timelineFilters", "array")
          THEN setFromArray(p.timelineFilters) ELSE st.timelineFilters,
        selectedMarkNames |->
          IF hasField(parsed, "selectedMarkNames", "array")
          THEN setFromArray(p.selectedMarkNames) ELSE st.selectedMarkNames,
        tableFilters |->
          IF hasField(parsed, "tableFilters", "array")
          THEN setFromArray(p.tableFilters) ELSE st.tableFilters,
        showNegativeTimestamps |->
          IF hasField(parsed, "showNegativeTimestamps", "boolean")
          THEN p.showNegativeTimestamps.boolean ELSE st.showNegativeTimestamps,
        ssrTimeOffset |->
          IF hasField(parsed, "ssrTimeOffset", "number")
          THEN p.ssrTimeOffset.number ELSE st.ssrTimeOffset,
        graphEndTime |->
          IF hasField(parsed, "graphEndTime", "null") THEN <<>>
          ELSE IF hasField(parsed, "graphEndTime", "number")
          THEN <<p.graphEndTime.number>> ELSE st.graphEndTime,
        minDurationMs |->
          IF hasField(parsed, "minDurationMs", "number")
          THEN p.minDurationMs.number ELSE st.minDurationMs,
        resourceDomainFilters |->
          IF hasField(parsed, "resourceDomainFilters", "array")
          THEN stringsOf(p.resourceDomainFilters) ELSE st.resourceDomainFilters,
        zoomLevel |->
          IF hasField(parsed, "zoomLevel", "number")
          THEN clampZoom(p.zoomLevel.number) ELSE st.zoomLevel,
        panOffset |->
          IF hasField(parsed, "panOffset", "number")
          THEN p.panOffset.number ELSE st.panOffset,
        tableSearchTerm |->
          IF hasField(parsed, "tableSearchTerm", "string")
          THEN p.tableSearchTerm.string ELSE st.tableSearchTerm,
        resourceFilterFileTypes |->
          IF hasField(parsed, "resourceFilterFileTypes", "array")
          THEN setFromArray(p.resourceFilterFileTypes)
          ELSE st.resourceFilterFileTypes,
        resourceFilterServices |->
          IF hasField(parsed, "resourceFilterServices", "array")
          THEN setFromArray(p.resourceFilterServices)
          ELSE st.resourceFilterServices,
        resourceFilterExtensions |->
          IF hasField(parsed, "resourceFilterExtensions", "array")
          THEN setFromArray(p.resourceFilterExtensions)
          ELSE st.resourceFilterExtensions,
        resourceFilterSubtypes |->
          IF hasField(parsed, "resourceFilterSubtypes", "array")
          THEN setFromArray(p.resourceFilterSubtypes)
          ELSE st.resourceFilterSubtypes,
        settingsLoaded |-> TRUE ]

\* the state the load effect queues for what localStorage holds: nothing
\* stored, a text that JSON.parse rejects, the text null (reading its first
\* field throws), and a parsed value
loadedState(st, saved) ==
  IF saved = <<>> THEN [st EXCEPT !.settingsLoaded = TRUE]
  ELSE IF ~saved[1].valid THEN [st EXCEPT !.settingsLoaded = TRUE]
  ELSE IF saved[1].parsed.type = "null" THEN [st EXCEPT !.settingsLoaded = TRUE]
  ELSE restored(st, saved[1].parsed)

\* a change of a persisted value schedules the save effect of the next commit
ScheduleSave == pendingEffects' = pendingEffects \cup {"save"}

\* React runs the effects of a commit and the render they queue before it
\* handles the next event
EffectsFlushed == pendingEffects = {} /\ queuedUpdates = <<>>

\* what localStorage 'performance-tool:filters' can hold when the hook mounts
SAVED_SESSION ==
  [ defaultState EXCEPT !.timelineFilters = {"mark", "resource"},
                        !.showNegativeTimestamps = TRUE,
                        !.minDurationMs = 3,
                        !.graphEndTime = <<1>>,
                        !.resourceDomainFilters = << <<"a", "D">> >>,
                        !.zoomLevel = 24,
                        !.settingsLoaded = TRUE ]

SavedSettings ==
  { <<>>,
    <<NOT_JSON>>,
    <<JsonText(JsonNull)>>,
    <<JsonText(JsonNumber(7))>>,
    <<JsonText(payloadOf(SAVED_SESSION))>>,
    <<JsonText(JsonObject([zoomLevel |-> JsonNumber(500)]))>>,
    <<JsonText(JsonObject([zoomLevel |-> JsonNumber(0 - 30)]))>>,
    <<JsonText(JsonObject([zoomLevel |-> JsonNumber(31),
                           panOffset |-> JsonNumber(40)]))>>,
    <<JsonText(JsonObject([zoomLevel |-> JsonString(<<"3">>),
                           panOffset |-> JsonNumber(0 - 8),
                           resourceDomainFilters |->
                             JsonArray(<<JsonNumber(1), JsonString(<<"b">>)>>)]))>> }

\* the stored settings of the resources view: nothing, the defaults, a
\* selection, and arrays without an element
ResourceSavedSettings ==
  { <<>>,
    <<JsonText(payloadOf(defaultState))>>,
    <<JsonText(JsonObject(
        [resourceFilterSubtypes |-> stringArray(<<"File">>),
         resourceFilterExtensions |-> stringArray(<< <<"j", "s">> >>)]))>>,
    <<JsonText(JsonObject(
        [resourceFilterFileTypes |-> JsonArray(<<>>),
         resourceFilterServices |-> JsonArray(<<>>),
         resourceFilterExtensions |-> JsonArray(<<>>),
         resourceFilterSubtypes |-> JsonArray(<<>>)]))>> }

\* the resource rows of the resources view
ResourceRows ==
  { NAME_EXAMPLE,
    staticPrefix \o <<"/", "_", "a", "p", "i", "/", "x">>,
    staticPrefix \o <<"/", "s", "e", "r", "v", "i", "c", "e", "s", "/", "s", "/", "f", ".", "J", "S">> }

\* entries that pair, pass through and break down into phases
ConservationEntries ==
  { Entry(NAME_A \o STARTED, "mark", 3, 0, NoNav),
    Entry(NAME_A \o ENDED, "mark", 5, 0, NoNav),
    Entry(NAME_A \o FINISHED, "SSR", 2, 0, NoNav),
    Entry(NAME_A, "SSR", 0, 2, NoNav),
    Entry(NAME_NAV, "navigation", 0, 9, NavTiming(1, 3, 3)) }

ZoomDeltas == {ZOOM_STEP, 0 - ZOOM_STEP}

\* ---- usePerformanceData
\* event.data of a window message
MessageData(id) ==
  { [id |-> id, type |-> t, siteModels |-> m, siteUrl |-> u] :
      t \in {"performanceData", "other"},
      m \in {<<>>, <<"models">>},
      u \in {<<>>, <<"url">>} }

\* what fetchSiteModels resolves to: null or the site models
FetchResults == {<<>>, <<"fetched">>}

\* the data an earlier session left in localStorage
CACHED_DATA ==
  [id |-> 0, type |-> "performanceData", siteModels |-> <<"models">>,
   siteUrl |-> <<>>]

\* what localStorage 'performance-tool:lastData' can hold at the mount
CachedData == {<<>>, <<NOT_JSON>>, <<JsonText(CACHED_DATA)>>}

\* !enrichedData.siteModels && (existingSiteUrl || incomingSiteUrl)
needsSiteModels(d) == d.siteModels = <<>> /\ d.siteUrl # <<>>

\* ------------------------------------------------------------ actions
\* the data prop grows by one entry
ReceiveEntry ==
  /\ Len(data) < MaxEvents
  /\ \E e \in ReconcileEntries : data' = Append(data, e)
  /\ UNCHANGED <<settingsVars, loaderVars, resourceVars>>
  /\ UNCHANGED <<filterVars, externalBaseUrl, filteredEvents>>

ReceivePairingEntry ==
  /\ Len(data) < MaxPairingEvents
  /\ \E e \in PairingEntries : data' = Append(data, e)
  /\ UNCHANGED <<settingsVars, loaderVars, resourceVars>>
  /\ UNCHANGED <<filterVars, externalBaseUrl, filteredEvents>>

ReceiveConservationEntry ==
  /\ Len(data) < MaxPairingEvents
  /\ \E e \in ConservationEntries : data' = Append(data, e)
  /\ UNCHANGED <<settingsVars, loaderVars, resourceVars>>
  /\ UNCHANGED <<filterVars, externalBaseUrl, filteredEvents>>

ReceiveNavigationEntry ==
  /\ Len(data) < MaxNavEvents
  /\ \E e \in NavigationEntries : data' = Append(data, e)
  /\ UNCHANGED <<settingsVars, loaderVars, resourceVars>>
  /\ UNCHANGED <<filterVars, externalBaseUrl, filteredEvents>>

ReceiveFilterEntry ==
  /\ Len(data) < MaxData
  /\ \E e \in FilterEntries : data' = Append(data, e)
  /\ UNCHANGED <<settingsVars, loaderVars, resourceVars>>
  /\ UNCHANGED <<filterVars, externalBaseUrl, filteredEvents>>

setSsrTimeOffset ==
  /\ \E v \in SsrOffsets : v # ssrTimeOffset /\ ssrTimeOffset' = v
  /\ ScheduleSave
  /\ UNCHANGED <<persistRest, loaderVars, resourceVars>>
  /\ UNCHANGED <<data, timelineFilters, selectedMarkNames, tableFilters,
                 tableSearchTerm, showNegativeTimestamps, graphEndTime,
                 minDurationMs, resourceDomainFilters, externalBaseUrl,
                 filteredEvents>>

setMinDurationMs ==
  /\ \E v \in MinDurations : v # minDurationMs /\ minDurationMs' = v
  /\ ScheduleSave
  /\ UNCHANGED <<persistRest, loaderVars, resourceVars>>
  /\ UNCHANGED <<data, ssrTimeOffset, timelineFilters, selectedMarkNames,
                 tableFilters, tableSearchTerm, showNegativeTimestamps,
                 graphEndTime, resourceDomainFilters, externalBaseUrl,
                 filteredEvents>>

setShowNegativeTimestamps ==
  /\ showNegativeTimestamps' = ~showNegativeTimestamps
  /\ ScheduleSave
  /\ UNCHANGED <<persistRest, loaderVars, resourceVars>>
  /\ UNCHANGED <<data, ssrTimeOffset, timelineFilters, selectedMarkNames,
                 tableFilters, tableSearchTerm, graphEndTime, minDurationMs,
                 resourceDomainFilters, externalBaseUrl, filteredEvents>>

setGraphEndTime ==
  /\ \E v \in GraphEndTimes : v # graphEndTime /\ graphEndTime' = v
  /\ ScheduleSave
  /\ UNCHANGED <<persistRest, loaderVars, resourceVars>>
  /\ UNCHANGED <<data, ssrTimeOffset, timelineFilters, selectedMarkNames,
                 tableFilters, tableSearchTerm, showNegativeTimestamps,
                 minDurationMs, resourceDomainFilters, externalBaseUrl,
                 filteredEvents>>

setTableSearchTerm ==
  /\ \E v \in SearchTerms : v # tableSearchTerm /\ tableSearchTerm' = v
  /\ ScheduleSave
  /\ UNCHANGED <<persistRest, loaderVars, resourceVars>>
  /\ UNCHANGED <<data, ssrTimeOffset, timelineFilters, selectedMarkNames,
                 tableFilters, showNegativeTimestamps, graphEndTime,
                 minDurationMs, resourceDomainFilters, externalBaseUrl,
                 filteredEvents>>

\* the body shared by toggleTimelineFilter, toggleTableFilter and toggleMarkName
toggled(current, value, all) ==
  IF value = all THEN {all}
  ELSE LET newFilters == current \ {all}
       IN IF value \in newFilters
          THEN IF newFilters \ {value} = {} THEN {all} ELSE newFilters \ {value}
          ELSE newFilters \cup {value}

toggleTimelineFilter ==
  /\ \E type \in FilterTypes : timelineFilters' = toggled(timelineFilters, type, "all")
  /\ ScheduleSave
  /\ UNCHANGED <<persistRest, loaderVars, resourceVars>>
  /\ UNCHANGED <<data, ssrTimeOffset, selectedMarkNames, tableFilters,
                 tableSearchTerm, showNegativeTimestamps, graphEndTime,
                 minDurationMs, resourceDomainFilters, externalBaseUrl,
                 filteredEvents>>

toggleTableFilter ==
  /\ \E type \in FilterTypes : tableFilters' = toggled(tableFilters, type, "all")
  /\ ScheduleSave
  /\ UNCHANGED <<persistRest, loaderVars, resourceVars>>
  /\ UNCHANGED <<data, ssrTimeOffset, timelineFilters, selectedMarkNames,
                 tableSearchTerm, showNegativeTimestamps, graphEndTime,
                 minDurationMs, resourceDomainFilters, externalBaseUrl,
                 filteredEvents>>

toggleMarkName ==
  /\ \E markName \in MarkNames :
       selectedMarkNames' = toggled(selectedMarkNames, markName, ALL_MARKS)
  /\ ScheduleSave
  /\ UNCHANGED <<persistRest, loaderVars, resourceVars>>
  /\ UNCHANGED <<data, ssrTimeOffset, timelineFilters, tableFilters,
                 tableSearchTerm, showNegativeTimestamps, graphEndTime,
                 minDurationMs, resourceDomainFilters, externalBaseUrl,
                 filteredEvents>>

handleAddDomain ==
  /\ \E val \in DomainInputs :
       /\ val # <<>>
       /\ val \notin Range(resourceDomainFilters)
       /\ resourceDomainFilters' = Append(resourceDomainFilters, val)
  /\ ScheduleSave
  /\ UNCHANGED <<persistRest, loaderVars, resourceVars>>
  /\ UNCHANGED <<data, ssrTimeOffset, timelineFilters, selectedMarkNames,
                 tableFilters, tableSearchTerm, showNegativeTimestamps,
                 graphEndTime, minDurationMs, externalBaseUrl, filteredEvents>>

handleRemoveDomain ==
  /\ \E filter \in Range(resourceDomainFilters) :
       LET other(f) == f # filter
       IN resourceDomainFilters' = SelectSeq(resourceDomainFilters, other)
  /\ ScheduleSave
  /\ UNCHANGED <<persistRest, loaderVars, resourceVars>>
  /\ UNCHANGED <<data, ssrTimeOffset, timelineFilters, selectedMarkNames,
                 tableFilters, tableSearchTerm, showNegativeTimestamps,
                 graphEndTime, minDurationMs, externalBaseUrl, filteredEvents>>

\* the timeline view is rendered with one more event
ReceiveFilteredEvent ==
  /\ Len(filteredEvents) < MaxLaneEvents
  /\ \E e \in LaneEntries : filteredEvents' = Append(filteredEvents, e)
  /\ UNCHANGED <<settingsVars, loaderVars, resourceVars>>
  /\ UNCHANGED <<data, filterVars, externalBaseUrl>>

\* a resource entry of the trace reaches the classifier
ReceiveResourceEntry ==
  /\ Len(data) < MaxResources
  /\ \E n \in ResourceNames : data' = Append(data, Entry(n, "resource", 1, 2, NoNav))
  /\ UNCHANGED <<settingsVars, loaderVars, resourceVars>>
  /\ UNCHANGED <<filterVars, externalBaseUrl, filteredEvents>>

\* the message carries data.siteModels.publicModel.externalBaseUrl
ReceiveSiteModels ==
  /\ \E b \in BaseUrls : b # externalBaseUrl /\ externalBaseUrl' = b
  /\ UNCHANGED <<settingsVars, loaderVars, resourceVars>>
  /\ UNCHANGED <<data, filterVars, filteredEvents>>

\* ---- settings persistence
\* the load effect: its setters queue the restored state for the next render
LoadSettingsEffect ==
  /\ "load" \in pendingEffects
  /\ pendingEffects' = pendingEffects \ {"load"}
  /\ queuedUpdates' =
       << loadedState(IF queuedUpdates = <<>> THEN filterState
                      ELSE queuedUpdates[1], savedFilters) >>
  /\ UNCHANGED <<zoomLevel, panOffset, settingsLoaded, savedFilters,
                 strictRerun, firstWrite, mountStorage>>
  /\ UNCHANGED <<data, filterVars, externalBaseUrl, filteredEvents, loaderVars, resourceVars>>

\* a save effect that does not wait for settingsLoaded
SaveSettingsEffectUnguarded ==
  /\ "save" \in pendingEffects
  /\ pendingEffects' = pendingEffects \ {"save"}
  /\ savedFilters' = <<JsonText(payloadOf(filterState))>>
  /\ firstWrite' = IF firstWrite = <<>> THEN savedFilters' ELSE firstWrite
  /\ UNCHANGED <<zoomLevel, panOffset, settingsLoaded, queuedUpdates,
                 strictRerun, mountStorage>>
  /\ UNCHANGED <<data, filterVars, externalBaseUrl, filteredEvents, loaderVars, resourceVars>>

\* the save effect, with the state of the render that scheduled it
SaveSettingsEffect ==
  /\ "save" \in pendingEffects
  /\ pendingEffects' = pendingEffects \ {"save"}
  /\ IF ~settingsLoaded
     THEN UNCHANGED <<savedFilters, firstWrite>>
     ELSE /\ savedFilters' = <<JsonText(payloadOf(filterState))>>
          /\ firstWrite' = IF firstWrite = <<>> THEN savedFilters' ELSE firstWrite
  /\ UNCHANGED <<zoomLevel, panOffset, settingsLoaded, queuedUpdates,
                 strictRerun, mountStorage>>
  /\ UNCHANGED <<data, filterVars, externalBaseUrl, filteredEvents, loaderVars, resourceVars>>

\* the mount effects are run a second time before the queued render
StrictModeRerun ==
  /\ pendingEffects = {}
  /\ queuedUpdates # <<>>
  /\ ~settingsLoaded
  /\ ~strictRerun
  /\ strictRerun' = TRUE
  /\ pendingEffects' = {"load", "save"}
  /\ UNCHANGED <<zoomLevel, panOffset, settingsLoaded, savedFilters,
                 queuedUpdates, firstWrite, mountStorage>>
  /\ UNCHANGED <<data, filterVars, externalBaseUrl, filteredEvents, loaderVars, resourceVars>>

\* the render of the queued updates; the save effect is scheduled when one of
\* its dependencies changed
Render ==
  /\ pendingEffects = {}
  /\ queuedUpdates # <<>>
  /\ LET q == queuedUpdates[1]
     IN  /\ timelineFilters' = q.timelineFilters
         /\ selectedMarkNames' = q.selectedMarkNames
         /\ tableFilters' = q.tableFilters
         /\ showNegativeTimestamps' = q.showNegativeTimestamps
         /\ ssrTimeOffset' = q.ssrTimeOffset
         /\ graphEndTime' = q.graphEndTime
         /\ minDurationMs' = q.minDurationMs
         /\ resourceDomainFilters' = q.resourceDomainFilters
         /\ zoomLevel' = q.zoomLevel
         /\ panOffset' = q.panOffset
         /\ tableSearchTerm' = q.tableSearchTerm
         /\ resourceFilterFileTypes' = q.resourceFilterFileTypes
         /\ resourceFilterServices' = q.resourceFilterServices
         /\ resourceFilterExtensions' = q.resourceFilterExtensions
         /\ resourceFilterSubtypes' = q.resourceFilterSubtypes
         /\ settingsLoaded' = q.settingsLoaded
         /\ pendingEffects' = IF q # filterState THEN {"save"} ELSE {}
  /\ queuedUpdates' = <<>>
  /\ UNCHANGED <<savedFilters, strictRerun, firstWrite, mountStorage>>
  /\ UNCHANGED <<data, externalBaseUrl, filteredEvents, loaderVars>>

handleZoomUnclamped(delta) ==
  /\ EffectsFlushed
  /\ zoomLevel' = zoomLevel + delta
  /\ pendingEffects' = IF zoomLevel' # zoomLevel THEN {"save"} ELSE {}
  /\ UNCHANGED <<panOffset, settingsLoaded, savedFilters, queuedUpdates,
                 strictRerun, firstWrite, mountStorage>>
  /\ UNCHANGED <<data, filterVars, externalBaseUrl, filteredEvents, loaderVars, resourceVars>>

handleZoom(delta) ==
  /\ EffectsFlushed
  /\ zoomLevel' = clampZoom(zoomLevel + delta)
  /\ pendingEffects' = IF zoomLevel' # zoomLevel THEN {"save"} ELSE {}
  /\ UNCHANGED <<panOffset, settingsLoaded, savedFilters, queuedUpdates,
                 strictRerun, firstWrite, mountStorage>>
  /\ UNCHANGED <<data, filterVars, externalBaseUrl, filteredEvents, loaderVars, resourceVars>>

\* the zoom buttons: handleZoom(0.2) and handleZoom(-0.2)
ZoomButtons == \E delta \in ZoomDeltas : handleZoom(delta)

\* the reset button: setZoomLevel(1)
resetZoom ==
  /\ EffectsFlushed
  /\ zoomLevel' = ZOOM_DEFAULT
  /\ pendingEffects' = IF zoomLevel' # zoomLevel THEN {"save"} ELSE {}
  /\ UNCHANGED <<panOffset, settingsLoaded, savedFilters, queuedUpdates,
                 strictRerun, firstWrite, mountStorage>>
  /\ UNCHANGED <<data, filterVars, externalBaseUrl, filteredEvents, loaderVars, resourceVars>>

\* the negative-timestamps checkbox once the effects have run
toggleShowNegative == EffectsFlushed /\ setShowNegativeTimestamps

\* ---- select all and clear
selectAllTimelineFilters ==
  /\ timelineFilters' = {"all"}
  /\ ScheduleSave
  /\ UNCHANGED <<persistRest, loaderVars, resourceVars>>
  /\ UNCHANGED <<data, ssrTimeOffset, selectedMarkNames, tableFilters,
                 tableSearchTerm, showNegativeTimestamps, graphEndTime,
                 minDurationMs, resourceDomainFilters, externalBaseUrl,
                 filteredEvents>>

clearAllTimelineFilters ==
  /\ timelineFilters' = {"all"}
  /\ selectedMarkNames' = {ALL_MARKS}
  /\ ScheduleSave
  /\ UNCHANGED <<persistRest, loaderVars, resourceVars>>
  /\ UNCHANGED <<data, ssrTimeOffset, tableFilters,
                 tableSearchTerm, showNegativeTimestamps, graphEndTime,
                 minDurationMs, resourceDomainFilters, externalBaseUrl,
                 filteredEvents>>

selectAllMarkNames ==
  /\ selectedMarkNames' = {ALL_MARKS}
  /\ ScheduleSave
  /\ UNCHANGED <<persistRest, loaderVars, resourceVars>>
  /\ UNCHANGED <<data, ssrTimeOffset, timelineFilters, tableFilters,
                 tableSearchTerm, showNegativeTimestamps, graphEndTime,
                 minDurationMs, resourceDomainFilters, externalBaseUrl,
                 filteredEvents>>

clearAllMarkNames ==
  /\ selectedMarkNames' = {ALL_MARKS}
  /\ ScheduleSave
  /\ UNCHANGED <<persistRest, loaderVars, resourceVars>>
  /\ UNCHANGED <<data, ssrTimeOffset, timelineFilters, tableFilters,
                 tableSearchTerm, showNegativeTimestamps, graphEndTime,
                 minDurationMs, resourceDomainFilters, externalBaseUrl,
                 filteredEvents>>

selectAllTableFilters ==
  /\ tableFilters' = {"all"}
  /\ ScheduleSave
  /\ UNCHANGED <<persistRest, loaderVars, resourceVars>>
  /\ UNCHANGED <<data, ssrTimeOffset, timelineFilters, selectedMarkNames,
                 tableSearchTerm, showNegativeTimestamps, graphEndTime,
                 minDurationMs, resourceDomainFilters, externalBaseUrl,
                 filteredEvents>>

clearAllTableFilters ==
  /\ tableFilters' = {"all"}
  /\ ScheduleSave
  /\ UNCHANGED <<persistRest, loaderVars, resourceVars>>
  /\ UNCHANGED <<data, ssrTimeOffset, timelineFilters, selectedMarkNames,
                 tableSearchTerm, showNegativeTimestamps, graphEndTime,
                 minDurationMs, resourceDomainFilters, externalBaseUrl,
                 filteredEvents>>

\* the select-all functions of the inline page
selectAllTimelineFiltersPage ==
  /\ timelineFilters' = eventTypesPageOf(options)
  /\ ScheduleSave
  /\ UNCHANGED <<persistRest, loaderVars, resourceVars>>
  /\ UNCHANGED <<data, ssrTimeOffset, selectedMarkNames, tableFilters,
                 tableSearchTerm, showNegativeTimestamps, graphEndTime,
                 minDurationMs, resourceDomainFilters, externalBaseUrl,
                 filteredEvents>>

\* its button is rendered when the mark filter is open to marks and there is a
\* standalone mark
selectAllMarkNamesPage ==
  /\ "all" \in timelineFilters \/ "mark" \in timelineFilters
  /\ standaloneMarkNamesPageOf(options) # {}
  /\ selectedMarkNames' = standaloneMarkNamesPageOf(options)
  /\ ScheduleSave
  /\ UNCHANGED <<persistRest, loaderVars, resourceVars>>
  /\ UNCHANGED <<data, ssrTimeOffset, timelineFilters, tableFilters,
                 tableSearchTerm, showNegativeTimestamps, graphEndTime,
                 minDurationMs, resourceDomainFilters, externalBaseUrl,
                 filteredEvents>>

selectAllTableFiltersPage ==
  /\ tableFilters' = eventTypesPageOf(options)
  /\ ScheduleSave
  /\ UNCHANGED <<persistRest, loaderVars, resourceVars>>
  /\ UNCHANGED <<data, ssrTimeOffset, timelineFilters, selectedMarkNames,
                 tableSearchTerm, showNegativeTimestamps, graphEndTime,
                 minDurationMs, resourceDomainFilters, externalBaseUrl,
                 filteredEvents>>

\* ---- the filters of the resources view
ReceiveResourceRow ==
  /\ Len(data) < MaxResources
  /\ \E n \in ResourceRows : data' = Append(data, Entry(n, "resource", 1, 2, NoNav))
  /\ UNCHANGED <<settingsVars, loaderVars, resourceVars>>
  /\ UNCHANGED <<filterVars, externalBaseUrl, filteredEvents>>

toggleResourceFileType(fileType) ==
  /\ resourceFilterFileTypes' =
       toggledResource(resourceFilterFileTypes, ALL_MARKS, fileType)
  /\ ScheduleSave
  /\ UNCHANGED <<resourceFilterServices, resourceFilterExtensions,
                 resourceFilterSubtypes>>
  /\ UNCHANGED <<data, filterVars, externalBaseUrl, filteredEvents, persistRest,
                 loaderVars>>

toggleResourceService(service) ==
  /\ resourceFilterServices' =
       toggledResource(resourceFilterServices, ALL_MARKS, service)
  /\ ScheduleSave
  /\ UNCHANGED <<resourceFilterFileTypes, resourceFilterExtensions,
                 resourceFilterSubtypes>>
  /\ UNCHANGED <<data, filterVars, externalBaseUrl, filteredEvents, persistRest,
                 loaderVars>>

toggleResourceExtension(extension) ==
  /\ resourceFilterExtensions' =
       toggledResource(resourceFilterExtensions, ALL_MARKS, extension)
  /\ ScheduleSave
  /\ UNCHANGED <<resourceFilterFileTypes, resourceFilterServices,
                 resourceFilterSubtypes>>
  /\ UNCHANGED <<data, filterVars, externalBaseUrl, filteredEvents, persistRest,
                 loaderVars>>

toggleResourceSubtype(subtype) ==
  /\ resourceFilterSubtypes' =
       toggledResource(resourceFilterSubtypes, "all", subtype)
  /\ ScheduleSave
  /\ UNCHANGED <<resourceFilterFileTypes, resourceFilterServices,
                 resourceFilterExtensions>>
  /\ UNCHANGED <<data, filterVars, externalBaseUrl, filteredEvents, persistRest,
                 loaderVars>>

\* the checkboxes of the resources view, one per value of the rows
FileTypeCheckbox ==
  EffectsFlushed /\ \E ft \in fileTypes(resourceEvents) : toggleResourceFileType(ft)
ServiceCheckbox ==
  EffectsFlushed /\ \E sv \in services(resourceEvents) : toggleResourceService(sv)
ExtensionCheckbox ==
  EffectsFlushed /\ \E ext \in extensions(resourceEvents) : toggleResourceExtension(ext)
SubtypeCheckbox ==
  EffectsFlushed /\ \E st \in subtypes(resourceEvents) : toggleResourceSubtype(st)

\* ---- usePerformanceData
\* a message handler that neither sets received nor clears the timer
handlerWithoutCancel(d) ==
  /\ listening
  /\ messageCount < MaxMessages
  /\ messageCount' = messageCount + 1
  /\ IF d.type # "performanceData"
     THEN UNCHANGED <<pageData, lastData, received, timeoutId, fetching>>
     ELSE /\ UNCHANGED <<received, timeoutId>>
          /\ IF needsSiteModels(d)
             THEN /\ fetching' = fetching \cup {d}
                  /\ UNCHANGED <<pageData, lastData>>
             ELSE /\ lastData' = <<JsonText(d)>>
                  /\ pageData' = <<d>>
                  /\ UNCHANGED fetching
  /\ UNCHANGED listening
  /\ UNCHANGED <<data, filterVars, externalBaseUrl, filteredEvents, settingsVars,
                 resourceVars>>

\* the message handler up to its await, or to its end when it does not fetch
handler(d) ==
  /\ listening
  /\ messageCount < MaxMessages
  /\ messageCount' = messageCount + 1
  /\ IF d.type # "performanceData"
     THEN UNCHANGED <<pageData, lastData, received, timeoutId, fetching>>
     ELSE /\ received' = TRUE
          /\ timeoutId' = IF timeoutId = "armed" THEN "cleared" ELSE timeoutId
          /\ IF needsSiteModels(d)
             THEN /\ fetching' = fetching \cup {d}
                  /\ UNCHANGED <<pageData, lastData>>
             ELSE /\ lastData' = <<JsonText(d)>>
                  /\ pageData' = <<d>>
                  /\ UNCHANGED fetching
  /\ UNCHANGED listening
  /\ UNCHANGED <<data, filterVars, externalBaseUrl, filteredEvents, settingsVars,
                 resourceVars>>

ReceiveMessage == \E d \in MessageData(messageCount + 1) : handler(d)

\* the handler after its await: fetchSiteModels has resolved; setData is
\* dropped once the component is unmounted
FetchSiteModelsResolves ==
  \E d \in fetching, siteModels \in FetchResults :
    LET enrichedData == IF siteModels # <<>>
                        THEN [d EXCEPT !.siteModels = siteModels] ELSE d
    IN  /\ fetching' = fetching \ {d}
        /\ lastData' = <<JsonText(enrichedData)>>
        /\ pageData' = IF listening THEN <<enrichedData>> ELSE pageData
        /\ UNCHANGED <<received, timeoutId, listening, messageCount>>
        /\ UNCHANGED <<data, filterVars, externalBaseUrl, filteredEvents,
                       settingsVars, resourceVars>>

\* the callback of the 2000 ms timer
TimeoutFires ==
  /\ timeoutId = "armed"
  /\ timeoutId' = "fired"
  /\ IF received THEN UNCHANGED pageData
     ELSE IF lastData # <<>> /\ lastData[1].valid
     THEN pageData' = <<lastData[1].parsed>>
     ELSE UNCHANGED pageData
  /\ UNCHANGED <<lastData, received, listening, fetching, messageCount>>
  /\ UNCHANGED <<data, filterVars, externalBaseUrl, filteredEvents, settingsVars,
                 resourceVars>>

\* the cleanup of the effect
Cleanup ==
  /\ listening
  /\ listening' = FALSE
  /\ timeoutId' = IF timeoutId = "armed" THEN "cleared" ELSE timeoutId
  /\ UNCHANGED <<pageData, lastData, received, fetching, messageCount>>
  /\ UNCHANGED <<data, filterVars, externalBaseUrl, filteredEvents, settingsVars,
                 resourceVars>>

\* ------------------------------------------------------------ specifications
InitState ==
  /\ data = <<>>
  /\ ssrTimeOffset = 0
  /\ timelineFilters = {"all"}
  /\ selectedMarkNames = {ALL_MARKS}
  /\ tableFilters = {"all"}
  /\ tableSearchTerm = <<>>
  /\ showNegativeTimestamps = FALSE
  /\ graphEndTime = <<>>
  /\ minDurationMs = 0
  /\ resourceDomainFilters = <<>>
  /\ externalBaseUrl = <<>>
  /\ filteredEvents = <<>>
  /\ zoomLevel = ZOOM_DEFAULT
  /\ panOffset = 0
  /\ settingsLoaded = FALSE
  /\ pendingEffects = {"load", "save"}
  /\ queuedUpdates = <<>>
  /\ strictRerun = FALSE
  /\ firstWrite = <<>>
  /\ pageData = <<>>
  /\ received = FALSE
  /\ timeoutId = "armed"
  /\ listening = TRUE
  /\ fetching = {}
  /\ messageCount = 0
  /\ resourceFilterFileTypes = {ALL_MARKS}
  /\ resourceFilterServices = {ALL_MARKS}
  /\ resourceFilterExtensions = {ALL_MARKS}
  /\ resourceFilterSubtypes = {"all"}

\* nothing is stored in localStorage
Init ==
  /\ InitState
  /\ savedFilters = <<>>
  /\ mountStorage = <<>>
  /\ lastData = <<>>

\* the reconciler over the received entries
Next == ReceiveEntry \/ setSsrTimeOffset

Spec == Init /\ [][Next]_vars

\* the filter layer under every filter setting
NextFilters ==
  \/ ReceiveFilterEntry
  \/ setMinDurationMs
  \/ setShowNegativeTimestamps
  \/ setGraphEndTime
  \/ setTableSearchTerm
  \/ toggleTimelineFilter
  \/ toggleTableFilter
  \/ toggleMarkName
  \/ handleAddDomain
  \/ handleRemoveDomain

SpecFilters == Init /\ [][NextFilters]_vars

\* the timeline and resource views under every setting they read
NextTimeline ==
  \/ ReceiveFilterEntry
  \/ setMinDurationMs
  \/ setShowNegativeTimestamps
  \/ setGraphEndTime
  \/ toggleTimelineFilter
  \/ toggleMarkName
  \/ handleAddDomain
  \/ handleRemoveDomain

SpecTimeline == Init /\ [][NextTimeline]_vars

\* the entries and the domain blacklist
NextBlacklist ==
  \/ ReceiveFilterEntry
  \/ handleAddDomain
  \/ handleRemoveDomain

SpecBlacklist == Init /\ [][NextBlacklist]_vars

\* the resource classifier over the resource names and the site base URL
NextClassifier == ReceiveResourceEntry \/ ReceiveSiteModels

SpecClassifier == Init /\ [][NextClassifier]_vars

\* lane assignment over the events of the timeline view
NextLanes == ReceiveFilteredEvent

SpecLanes == Init /\ [][NextLanes]_vars

\* the reconciler over entries of two pairing keys
NextPairing == ReceivePairingEntry \/ setSsrTimeOffset

SpecPairing == Init /\ [][NextPairing]_vars

\* the reconciler over navigation entries
NextNavigation == ReceiveNavigationEntry \/ setSsrTimeOffset

SpecNavigation == Init /\ [][NextNavigation]_vars

\* the settings hook from its mount on, over what localStorage can hold
InitSettings ==
  /\ InitState
  /\ lastData = <<>>
  /\ \E saved \in SavedSettings : savedFilters = saved /\ mountStorage = saved

NextSettings ==
  \/ LoadSettingsEffect
  \/ SaveSettingsEffect
  \/ StrictModeRerun
  \/ Render
  \/ ZoomButtons
  \/ resetZoom
  \/ toggleShowNegative

SpecSettings == InitSettings /\ [][NextSettings]_vars

\* the data hook from its mount on, over what localStorage can hold
InitLoader ==
  /\ InitState
  /\ savedFilters = <<>>
  /\ mountStorage = <<>>
  /\ \E saved \in CachedData : lastData = saved

NextLoader ==
  \/ ReceiveMessage
  \/ FetchSiteModelsResolves
  \/ TimeoutFires
  \/ Cleanup

SpecLoader == InitLoader /\ [][NextLoader]_vars

NextConservation == ReceiveConservationEntry \/ setSsrTimeOffset

SpecConservation == Init /\ [][NextConservation]_vars

\* the type and mark-name selections under the toggles, select all and clear
NextSelection ==
  \/ ReceiveFilterEntry
  \/ toggleTimelineFilter
  \/ toggleTableFilter
  \/ toggleMarkName
  \/ selectAllTimelineFilters
  \/ clearAllTimelineFilters
  \/ selectAllMarkNames
  \/ clearAllMarkNames
  \/ selectAllTableFilters
  \/ clearAllTableFilters
  \/ selectAllTimelineFiltersPage
  \/ selectAllMarkNamesPage
  \/ selectAllTableFiltersPage

SpecSelection == Init /\ [][NextSelection]_vars

\* the resources view from the mount of the settings hook on
InitResources ==
  /\ InitState
  /\ lastData = <<>>
  /\ \E saved \in ResourceSavedSettings :
       savedFilters = saved /\ mountStorage = saved

NextResources ==
  \/ LoadSettingsEffect
  \/ SaveSettingsEffect
  \/ StrictModeRerun
  \/ Render
  \/ ReceiveResourceRow
  \/ FileTypeCheckbox
  \/ ServiceCheckbox
  \/ ExtensionCheckbox
  \/ SubtypeCheckbox

SpecResources == InitResources /\ [][NextResources]_vars

\* ------------------------------------------------------------ claims: reconciler
eventsWithOffset == applySsrOffset(data, ssrTimeOffset)

\* base name with the given suffix removed, in lower case, and the server flag
IdentityFor(name, suffix) ==
  LET nn == normalizeName(name)
  IN [base |-> toLowerCase(substring(nn.normalized, 0,
                                      Len(nn.normalized) - Len(suffix))),
      server |-> nn.isServer]

HasSuffix(name, suffix) ==
  endsWith(toLowerCase(normalizeName(name).normalized), suffix)

IsStartedName(name) == HasSuffix(name, STARTED)
IsEndName(name) == HasSuffix(name, ENDED) \/ HasSuffix(name, FINISHED)

StartedIdentity(name) == IdentityFor(name, STARTED)
EndIdentity(name) ==
  IF HasSuffix(name, ENDED) THEN IdentityFor(name, ENDED)
  ELSE IdentityFor(name, FINISHED)

\* identity of a combined entry: its name carries no started/ended suffix
CombinedIdentity(name) == IdentityFor(name, <<>>)

IsCombined(e) == e.isCombined = <<TRUE>>

\* C1: when exactly one started entry and exactly one end entry of the input
\* share a base name (case-insensitively) and a server flag, the output holds
\* exactly one combined entry for it, its duration is the end's adjusted start
\* minus the started's adjusted start, and neither original is in the output.
C1_PairingCorrectness ==
  \A i, j \in DOMAIN data :
    LET ev == eventsWithOffset
        out == processedEvents
        id == StartedIdentity(data[i].name)
        mine == {k \in DOMAIN out :
                   IsCombined(out[k]) /\ CombinedIdentity(out[k].name) = id}
    IN ( /\ IsStartedName(data[i].name)
         /\ IsEndName(data[j].name)
         /\ EndIdentity(data[j].name) = id
         /\ \A k \in DOMAIN data :
              /\ (IsStartedName(data[k].name)
                    /\ StartedIdentity(data[k].name) = id) => k = i
              /\ (IsEndName(data[k].name)
                    /\ EndIdentity(data[k].name) = id) => k = j )
       => /\ Cardinality(mine) = 1
          /\ \A k \in mine : out[k].duration = ev[j].startTime - ev[i].startTime
          /\ ev[i] \notin Range(out)
          /\ ev[j] \notin Range(out)

\* C4: a started entry for which the input holds no end entry with the same
\* pairing key is in the output as an ordinary, uncombined entry.
C4_UnmatchedStartedPassThrough ==
  \A i \in DOMAIN data :
    LET id == StartedIdentity(data[i].name)
        key == pairingKey(id.base, id.server)
    IN ( /\ IsStartedName(data[i].name)
         /\ \A j \in DOMAIN data :
              IsEndName(data[j].name) =>
                LET ej == EndIdentity(data[j].name)
                IN pairingKey(ej.base, ej.server) # key )
       => eventsWithOffset[i] \in Range(processedEvents)

\* C5: every combined entry is made of a started entry and an end entry with
\* the same server flag and the same case-insensitive base name.
C5_ServerFlavourIsolation ==
  \A k \in DOMAIN processedEvents :
    LET c == processedEvents[k]
    IN IsCombined(c) =>
         LET started == eventsWithOffset[c.originalIndex[1] + 1]
             end == c.endEvent[1]
         IN StartedIdentity(started.name) = EndIdentity(end.name)

\* ------------------------------------------------------------ claims: lanes
intervalEnd(p) == p.event.startTime + p.event.duration

\* no two events of one lane overlap in time
NonOverlapping(out) ==
  \A i, j \in DOMAIN out :
    (i # j /\ out[i].lane = out[j].lane) =>
      \/ intervalEnd(out[i]) <= out[j].event.startTime
      \/ intervalEnd(out[j]) <= out[i].event.startTime

\* an event that starts while an earlier-starting one is active is not above it
ChronologicalFloor(out) ==
  \A i, j \in DOMAIN out :
    ( /\ out[j].event.startTime > out[i].event.startTime
      /\ intervalEnd(out[i]) > out[j].event.startTime )
    => out[j].lane >= out[i].lane

\* C2: in the output of calculateLanePositions, of either variant, two distinct
\* events of the same lane have disjoint intervals [startTime, startTime+duration).
C2_LaneNonOverlap ==
  /\ NonOverlapping(calculateLanePositions(filteredEvents))
  /\ NonOverlapping(calculateLanePositionsNav(filteredEvents))

\* C3: in the output of calculateLanePositions, of either variant, an event B
\* that starts strictly after an event A still active at B's start has a lane
\* index not lower than A's.
C3_ChronologicalLaneFloor ==
  /\ ChronologicalFloor(calculateLanePositions(filteredEvents))
  /\ ChronologicalFloor(calculateLanePositionsNav(filteredEvents))

\* of two events with one start time and different positive durations the
\* longer one is in a strictly lower lane
LongerFirst(out) ==
  \A i, j \in DOMAIN out :
    ( /\ out[i].event.startTime = out[j].event.startTime
      /\ out[j].event.duration > 0
      /\ out[i].event.duration > out[j].event.duration )
    => out[i].lane < out[j].lane

\* C21: in the output of calculateLanePositions, of either variant, of any two
\* events with the same startTime and different positive durations the one
\* with the longer duration has a strictly lower lane index.
C21_LongerEventLowerLane ==
  /\ LongerFirst(calculateLanePositions(filteredEvents))
  /\ LongerFirst(calculateLanePositionsNav(filteredEvents))

\* C22: in the output of the navigation-aware calculateLanePositions every
\* 'navigation' entry has lane 0, every 'navigation-phase' entry has lane 1 and
\* every other event has a lane index of at least 2, whatever the start times.
C22_LaneReservation ==
  LET out == calculateLanePositionsNav(filteredEvents)
  IN \A i \in DOMAIN out :
       IF out[i].event.entryType = "navigation" THEN out[i].lane = 0
       ELSE IF out[i].event.entryType = "navigation-phase" THEN out[i].lane = 1
       ELSE out[i].lane >= 2

\* ------------------------------------------------------------ claims: filter layer
\* the entry is a resource whose name contains a blacklisted substring
Blacklisted(e) ==
  /\ e.entryType = "resource"
  /\ \E f \in Range(resourceDomainFilters) :
       \E i \in 0..(Len(e.name) - Len(f)) :
         toLowerCase(SubSeq(e.name, i + 1, i + Len(f))) = toLowerCase(f)

IsSubsetOfEntries(s, t) == Range(s) \subseteq Range(t)

\* C6: under every setting of the other filters the timeline milestones, of
\* the hook and of the page, are the same for minDurationMs = 0 and for each
\* positive minDurationMs, and the duration events for a positive
\* minDurationMs are among those for 0.
C6_MilestoneImmunity ==
  \A m \in MinDurations :
    LET o0 == [options EXCEPT !.minDurationMs = 0]
        om == [options EXCEPT !.minDurationMs = m]
    IN /\ timelineMilestoneEventsOf(om) = timelineMilestoneEventsOf(o0)
       /\ timelineMilestoneEventsPageOf(om) = timelineMilestoneEventsPageOf(o0)
       /\ IsSubsetOfEntries(timelineFilteredEventsOf(om), timelineFilteredEventsOf(o0))

\* the values timelineFilters and tableFilters take under their toggles
FilterSets ==
  {S \in SUBSET FilterTypes : S = {"all"} \/ (S # {} /\ "all" \notin S)}

\* the values selectedMarkNames takes under toggleMarkName
MarkNameSets ==
  {S \in SUBSET MarkNames : S = {ALL_MARKS} \/ (S # {} /\ ALL_MARKS \notin S)}

\* the options with the settings only the timeline reads replaced
TimelineOptions ==
  { [options EXCEPT !.timelineFilters = tf, !.selectedMarkNames = mn,
                    !.showNegativeTimestamps = sn, !.graphEndTime = g,
                    !.minDurationMs = m] :
      tf \in FilterSets, mn \in MarkNameSets, sn \in BOOLEAN,
      g \in GraphEndTimes, m \in MinDurations }

\* the options with the settings only the table reads replaced
TableOptions ==
  { [options EXCEPT !.tableFilters = tf, !.tableSearchTerm = term] :
      tf \in FilterSets, term \in SearchTerms }

\* C7: a resource entry whose name contains a blacklisted substring, in any
\* letter case, is in none of the timeline duration events, the timeline
\* milestones, the table rows and the resource rows, under every setting of
\* the other filters.
C7_DomainBlacklistExclusivity ==
  /\ \A o \in TimelineOptions :
       \A e \in Range(timelineFilteredEventsOf(o))
                  \cup Range(timelineMilestoneEventsOf(o)) : ~Blacklisted(e)
  /\ \A o \in TableOptions :
       \A e \in Range(tableFilteredEventsOf(o)) : ~Blacklisted(e)
  /\ \A e \in Range(resourceEvents) : ~Blacklisted(e)

\* a blacklisted resource is among the reconciled entries and the other
\* filters would show it
C7_Witness ==
  \E e \in Range(processedEvents) :
    /\ Blacklisted(e)
    /\ e.duration > 0 /\ e.startTime >= 0
    /\ "all" \in timelineFilters /\ "all" \in tableFilters
    /\ tableSearchTerm = <<>> /\ minDurationMs = 0

BoundsAsSpecified(filtered, milestoneEvents, showNegative) ==
  LET all == filtered \o milestoneEvents
      b == calculateTimelineBounds(filtered, milestoneEvents, showNegative)
      starts == {all[i].startTime : i \in DOMAIN all}
      ends == {all[i].startTime + all[i].duration : i \in DOMAIN all}
  IN IF all = <<>> THEN b = [min |-> 0, max |-> 1000]
     ELSE /\ b.max \in ends
          /\ \A x \in ends : x <= b.max
          /\ showNegative =>
               /\ b.min \in starts \cup {0}
               /\ \A x \in starts \cup {0} : b.min <= x
          /\ ~showNegative => b.min = 0

\* C8: over the visible duration events and milestones, of the hook and of the
\* page, max is the largest
\* startTime + duration, min is 0 when negative timestamps are hidden and
\* min(0, smallest startTime) when they are shown; the empty union gives
\* {min: 0, max: 1000}.
C8_TimelineBounds ==
  \A showNegative \in BOOLEAN :
    /\ BoundsAsSpecified(timelineFilteredEvents, timelineMilestoneEvents, showNegative)
    /\ BoundsAsSpecified(timelineFilteredEventsPage, timelineMilestoneEventsPage,
                         showNegative)

\* a visible event starts before 0, so the two settings give different minima
C8_Witness ==
  /\ showNegativeTimestamps
  /\ timelineFilteredEvents # <<>>
  /\ timelineMilestoneEvents # <<>>
  /\ timelineBounds.min < 0
  /\ calculateTimelineBounds(timelineFilteredEvents, timelineMilestoneEvents,
                             FALSE).min = 0

\* C9: while showNegativeTimestamps is false no entry with startTime < 0 is a
\* timeline duration event or a milestone, and every visible timeline entry
\* starts at or after bounds.min.
C9_NegativeTimestampsHidden ==
  \A e \in Range(timelineFilteredEvents) \cup Range(timelineMilestoneEvents) :
    /\ ~showNegativeTimestamps => e.startTime >= 0
    /\ e.startTime >= timelineBounds.min

\* negative entries, a duration event and a milestone, are reconciled and
\* hidden only by the switch
C9_Witness ==
  /\ ~showNegativeTimestamps
  /\ "all" \in timelineFilters /\ ALL_MARKS \in selectedMarkNames
  /\ graphEndTime = <<>> /\ minDurationMs = 0 /\ resourceDomainFilters = <<>>
  /\ \E e \in Range(processedEvents) : e.startTime < 0 /\ e.duration > 0
  /\ \E e \in Range(processedEvents) :
       e.startTime < 0 /\ e.duration = 0 /\ e.entryType = "mark"

\* C10: the table rows, of the hook and of the page, are the same under every
\* setting of showNegativeTimestamps, graphEndTime and minDurationMs, and they
\* are all reconciled entries, negative ones included, when the blacklist is
\* empty, the type filter is 'all' and there is no search term.
C10_TableShowsEverything ==
  /\ \A sn \in BOOLEAN, g \in GraphEndTimes, m \in MinDurations :
       LET o == [options EXCEPT !.showNegativeTimestamps = sn,
                                !.graphEndTime = g, !.minDurationMs = m]
       IN /\ tableFilteredEventsOf(o) = tableFilteredEvents
          /\ tableFilteredEventsPageOf(o) = tableFilteredEventsPage
  /\ ( /\ resourceDomainFilters = <<>>
       /\ "all" \in tableFilters
       /\ tableSearchTerm = <<>> )
     => /\ tableFilteredEvents = processedEvents
        /\ tableFilteredEventsPage = processedEventsPage


\* ------------------------------------------------------------ claims: classifier
\* the name starts with {base}/_api/ or {origin(base)}/_api/, base taken
\* without its trailing slash
StartsWithApiPrefix(name, base) ==
  LET bare == IF base # <<>> /\ base[Len(base)] = "/"
              THEN SubSeq(base, 1, Len(base) - 1) ELSE base
      u == parseUrl(base)
      roots == {bare} \cup (IF u = <<>> THEN {} ELSE {u[1].origin})
  IN /\ base # <<>>
     /\ \E r \in roots : startsWith(name, r \o API_MARKER)

IsApiOnly(ex) ==
  /\ ex.resource_subtype = <<"API">>
  /\ ex.file_type = <<>> /\ ex.service = <<>>
  /\ ex.file_name = <<>> /\ ex.file_extension = <<>>

\* C11: for every resource name that starts with an API prefix of the given
\* site base URL, getResourceExtras, in either of its versions, answers the
\* subtype 'API' with no File field, also when the name starts with the static
\* prefix or ends in a recognised extension.
C11_ApiRuleFirst ==
  \A i \in DOMAIN data :
    StartsWithApiPrefix(data[i].name, externalBaseUrl) =>
      /\ IsApiOnly(getResourceExtras(data[i].name, externalBaseUrl))
      /\ IsApiOnly(getResourceExtrasApiFirst(data[i].name, externalBaseUrl))

\* the variants in the order the claim gives them
VariantsAsSpecified(base) ==
  LET slashed == base[Len(base)] = "/"
      u == parseUrl(base)
  IN << IF slashed THEN base ELSE base \o <<"/">>,
        IF slashed THEN SubSeq(base, 1, Len(base) - 1) ELSE base >>
     \o (IF u = <<>> THEN <<>> ELSE <<u[1].origin, u[1].origin \o <<"/">>>>)

\* r is rem with its leading slashes removed, or '/' when nothing is left
IsStripped(r, rem) ==
  \E n \in 0..Len(rem) :
    /\ \A i \in 1..n : rem[i] = "/"
    /\ n < Len(rem) => rem[n + 1] # "/"
    /\ r = IF n = Len(rem) THEN <<"/">> ELSE SubSeq(rem, n + 1, Len(rem))

DisplayNameAsSpecified(r, name, base) ==
  IF base = <<>> THEN r = name
  ELSE LET v == VariantsAsSpecified(base)
           matching == {k \in DOMAIN v : startsWith(name, v[k])}
       IN IF matching = {} THEN r = name
          ELSE LET k == CHOOSE k \in matching : \A j \in matching : k <= j
               IN IsStripped(r, SubSeq(name, Len(v[k]) + 1, Len(name)))

\* C12: getDisplayResourceName returns the name unchanged with no base or when
\* no variant is a prefix of it, and otherwise what follows the first matching
\* variant, leading slashes removed, or '/' when nothing follows; for the base
\* 'https://example.com/' the name 'https://example.com/styles/main.css' is
\* displayed as 'styles/main.css'.
C12_DisplayResourceName ==
  \A i \in DOMAIN data :
    LET r == getDisplayResourceName(data[i].name, externalBaseUrl)
    IN /\ DisplayNameAsSpecified(r, data[i].name, externalBaseUrl)
       /\ (data[i].name = NAME_EXAMPLE /\ externalBaseUrl = BASE_EXAMPLE)
            => r = <<"s", "t", "y", "l", "e", "s", "/", "m", "a", "i", "n", ".", "c", "s", "s">>

\* a name matched by the origin variant only and a name with nothing after
\* the prefix are displayed
C12_Witness ==
  /\ externalBaseUrl = BASE_A \o <<"/", "p">>
  /\ \E i, j \in DOMAIN data :
       /\ getDisplayResourceName(data[i].name, externalBaseUrl) = <<"_", "a", "p", "i", "/", "x", "/", "y">>
       /\ getDisplayResourceName(data[j].name, externalBaseUrl) = <<"/">>


\* the name is a variant of the base or continues one with a '/'
OnBaseOrigin(name, base) ==
  \E k \in DOMAIN displayVariants(base) :
    LET v == displayVariants(base)[k]
        withSlash == IF endsWith(v, <<"/">>) THEN v ELSE v \o <<"/">>
    IN  name = v \/ startsWith(name, withSlash)

\* C30: getDisplayResourceName changes a name only when the name is a variant
\* of the base URL or continues one with a '/'; a name on another host that
\* begins with the characters of the base is returned unchanged.
C30_OnlyOwnOriginShortened ==
  \A i \in DOMAIN data :
    getDisplayResourceName(data[i].name, externalBaseUrl) # data[i].name
      => /\ externalBaseUrl # <<>>
         /\ OnBaseOrigin(data[i].name, externalBaseUrl)

\* ------------------------------------------------------------ claims: settings

ZoomInRange == ZOOM_MIN <= zoomLevel /\ zoomLevel <= ZOOM_MAX

\* the step sets panOffset to the numeric panOffset that localStorage holds
PanRestored ==
  /\ savedFilters # <<>>
  /\ savedFilters[1].valid
  /\ hasField(savedFilters[1].parsed, "panOffset", "number")
  /\ panOffset' = fieldsOf(savedFilters[1].parsed).panOffset.number

\* C13: from the zoom level 1, after any sequence of handleZoom(+0.2),
\* handleZoom(-0.2), resets to 1 and the restore of a persisted numeric
\* zoomLevel, 0.5 <= zoomLevel <= 10 holds; no operation on the zoom level
\* changes panOffset: it stays as it is in every step after the mount effects
\* are flushed, and the restore changes it only to a numeric panOffset that the
\* stored payload itself holds.
C13_ZoomClamp ==
  /\ []ZoomInRange
  /\ [][ /\ EffectsFlushed => panOffset' = panOffset
         /\ panOffset' # panOffset => PanRestored ]_vars

\* the stored zoom level 50 was restored as 10, the buttons brought it down to
\* 0.5, and panOffset is still the default
C13_Witness ==
  /\ mountStorage = <<JsonText(JsonObject([zoomLevel |-> JsonNumber(500)]))>>
  /\ settingsLoaded
  /\ zoomLevel = ZOOM_MIN
  /\ panOffset = 0

\* the payload of the values that the load effect restores from what was stored
\* at the mount
LoadedPayload == <<JsonText(payloadOf(loadedState(defaultState, mountStorage)))>>

MessageReceived ==
  \/ fetching # {}
  \/ lastData # <<>> /\ lastData[1].valid /\ lastData[1].parsed.id > 0

\* the step shows data without storing any: the data came from the cache
CachedSet == pageData' # pageData /\ lastData' = lastData

\* C15: cached data from 'performance-tool:lastData' is shown only by the
\* 2000 ms timer firing before any performanceData message; once a message is
\* received, also while its site-model fetch is pending, the received flag is
\* set, the timer is no longer armed, and cached data is never set afterwards.
C15_CachedFallback ==
  /\ [](MessageReceived => (received /\ timeoutId # "armed"))
  /\ [][received => received']_vars
  /\ [][CachedSet => /\ ~MessageReceived
                     /\ ~received
                     /\ timeoutId = "armed"
                     /\ timeoutId' = "fired"
                     /\ pageData' = <<CACHED_DATA>>]_vars

\* cached data exists, a message is received and its fetch is pending: the
\* timer is cleared and nothing is shown yet
C15_Witness ==
  /\ lastData = <<JsonText(CACHED_DATA)>>
  /\ received
  /\ fetching # {}
  /\ timeoutId = "cleared"
  /\ pageData = <<>>

\* the number of the message that displayed or stored data is derived from;
\* 0 for none and for the data of an earlier session
displayedId(shown) == IF shown = <<>> THEN 0 ELSE shown[1].id
storedId(saved) ==
  IF saved # <<>> /\ saved[1].valid THEN saved[1].parsed.id ELSE 0

\* C29: the latest message wins: data derived from an earlier message never
\* replaces, on the page or under 'performance-tool:lastData', data derived
\* from a later message, whatever the order in which the site-model fetches
\* resolve; so once every fetch has resolved the data of the last
\* performanceData message is displayed and stored.
C29_LatestMessageWins ==
  [][ /\ displayedId(pageData') >= displayedId(pageData)
      /\ storedId(lastData') >= storedId(lastData) ]_vars

\* ------------------------------------------------------------ claims: pairing

StartedIndices == {i \in DOMAIN data : IsStartedName(data[i].name)}
EndIndices == {i \in DOMAIN data : IsEndName(data[i].name)}

\* pairing key of the started entry i and of the end entry j of the input
StartedKey(i) ==
  LET id == StartedIdentity(data[i].name) IN pairingKey(id.base, id.server)
EndKey(j) ==
  LET id == EndIdentity(data[j].name) IN pairingKey(id.base, id.server)

\* pairing key of the end entry a combined entry was made with
CombinedKey(c) ==
  LET id == EndIdentity(c.endEvent[1].name) IN pairingKey(id.base, id.server)

CombinedIndices == {k \in DOMAIN processedEvents : IsCombined(processedEvents[k])}

C17_PairedAtMostOnce ==
  LET ev == eventsWithOffset
      out == processedEvents
      ended == EndIndices
      endKey == [k \in ended |-> EndKey(k)]
      combined == {k \in DOMAIN out : IsCombined(out[k])}
      combinedKey == [k \in combined |-> CombinedKey(out[k])]
  IN /\ \A j \in ended :
          LET ends == {k \in ended : endKey[k] = endKey[j]}
              mine == {k \in combined : combinedKey[k] = endKey[j]}
              first == CHOOSE k \in ends : \A l \in ends : k <= l
          IN /\ Cardinality(mine) <= 1
             /\ \A k \in mine : out[k].endEvent = <<ev[first]>>
             /\ j # first =>
                  Cardinality({k \in DOMAIN out : out[k] = ev[j]})
                    >= Cardinality({l \in ends \ {first} : ev[l] = ev[j]})
     /\ Cardinality(combined)
          <= Cardinality({StartedKey(i) : i \in StartedIndices})

\* one started entry and two different end entries with its key: the first is
\* combined and the second passes through
C17_Witness ==
  /\ Len(data) = 3
  /\ StartedIndices = {1}
  /\ EndIndices = {2, 3}
  /\ EndKey(2) = StartedKey(1)
  /\ EndKey(3) = StartedKey(1)
  /\ eventsWithOffset[2] # eventsWithOffset[3]
  /\ Len(processedEvents) = 2
  /\ processedEvents[1].endEvent = <<eventsWithOffset[2]>>
  /\ processedEvents[2] = eventsWithOffset[3]

\* s is t with some of its elements left out
RECURSIVE IsSubsequence(_, _)
IsSubsequence(s, t) ==
  IF s = <<>> THEN TRUE
  ELSE IF t = <<>> THEN FALSE
  ELSE IF Head(s) = Head(t) THEN IsSubsequence(Tail(s), Tail(t))
  ELSE IsSubsequence(s, Tail(t))

\* C18: in the output all combined entries come before all pass-through
\* entries, the combined entries are in the input order of their end entries,
\* and the pass-through entries are in their input order.
C18_OutputOrder ==
  LET ev == eventsWithOffset
      out == processedEvents
      combined == {k \in DOMAIN out : IsCombined(out[k])}
      n == Cardinality(combined)
  IN /\ combined = 1..n
     /\ IsSubsequence([k \in 1..n |-> out[k].endEvent[1]], ev)
     /\ IsSubsequence(SubSeq(out, n + 1, Len(out)), ev)

\* two combined entries of different end entries, the later start time first:
\* the output is not sorted by startTime
C18_Witness ==
  LET out == processedEvents
  IN /\ Len(out) >= 2
     /\ IsCombined(out[1])
     /\ IsCombined(out[2])
     /\ out[1].endEvent[1] # out[2].endEvent[1]
     /\ out[1].startTime > out[2].startTime

\* the offset an entry type receives
offsetFor(entryType) == IF entryType = "SSR" THEN ssrTimeOffset ELSE 0

\* C19: every entry with entryType 'SSR' has the offset added to its startTime
\* and nothing else changes; the offset is applied before the pairing: a
\* combined entry starts at the adjusted start of its started entry, and its
\* duration is the raw span plus the offset of the end entry minus the offset
\* of the started entry, so that it does not depend on the offset when both
\* are 'SSR' and is shifted by it when exactly one is.
C19_SsrOffsetBeforePairing ==
  LET ev == eventsWithOffset
      out == processedEvents
  IN /\ Len(ev) = Len(data)
     /\ \A i \in DOMAIN data :
          ev[i] = [data[i] EXCEPT !.startTime = @ + offsetFor(data[i].entryType)]
     /\ \A k \in DOMAIN out :
          IF IsCombined(out[k])
          THEN LET i == out[k].originalIndex[1] + 1
                   end == out[k].endEvent[1]
               IN /\ out[k].startTime =
                       data[i].startTime + offsetFor(data[i].entryType)
                  /\ \E j \in DOMAIN data :
                       /\ ev[j] = end
                       /\ out[k].duration =
                            (data[j].startTime - data[i].startTime)
                              + offsetFor(data[j].entryType)
                              - offsetFor(data[i].entryType)
          ELSE out[k] \in Range(ev)

\* with the offset 5, a pair of two 'SSR' entries keeps its raw span 1 and a
\* pair of a mark and an 'SSR' entry has its raw span 2 shifted to 7
C19_Witness ==
  LET out == processedEvents
  IN /\ ssrTimeOffset = 5
     /\ Len(out) = 2
     /\ IsCombined(out[1])
     /\ IsCombined(out[2])
     /\ out[1].entryType = "SSR"
     /\ out[1].endEvent[1].entryType = "SSR"
     /\ out[1].duration = 1
     /\ out[2].entryType = "mark"
     /\ out[2].endEvent[1].entryType = "SSR"
     /\ out[2].duration = 7

\* ------------------------------------------------------------ claims: navigation phases

\* the phases of a navigation entry: in the order of the table, one for every
\* row whose two fields are present, whatever their value, with a span of at
\* least 1
RECURSIVE PhasesOfPresentFields(_, _)
PhasesOfPresentFields(e, k) ==
  IF k = 0 THEN <<>>
  ELSE LET prev == PhasesOfPresentFields(e, k - 1)
           row == NavigationPhaseTable[k]
       IN IF /\ row.start \in DOMAIN e.nav
             /\ row.end \in DOMAIN e.nav
             /\ e.nav[row.end] - e.nav[row.start] >= 1
          THEN Append(prev,
                      [Entry(row.name, "navigation-phase", e.nav[row.start],
                             e.nav[row.end] - e.nav[row.start], NoNav)
                         EXCEPT !.navigationPhase = <<TRUE>>])
          ELSE prev

IsPhase(e) == e.entryType = "navigation-phase"

\* C20: each pass-through 'navigation' entry is followed immediately by its
\* phases and by no other phase: in the fixed order DNS, TCP, TTFB, response
\* download, DOM parsing, DOMContentLoaded, loading resources, load event, one
\* for exactly those rows whose two timing fields are present (0 included) and
\* whose span end - start is at least 1, with startTime = start and
\* duration = end - start; no phase stands anywhere else.
C20_NavigationPhases ==
  LET out == processedEvents
  IN \A k \in DOMAIN out :
       /\ (out[k].entryType = "navigation" /\ ~IsCombined(out[k])) =>
            LET expected == PhasesOfPresentFields(out[k], Len(NavigationPhaseTable))
                last == k + Len(expected)
            IN /\ last <= Len(out)
               /\ SubSeq(out, k + 1, last) = expected
               /\ last < Len(out) => ~IsPhase(out[last + 1])
       /\ IsPhase(out[k]) =>
            /\ k > 1
            /\ IsPhase(out[k - 1]) \/ out[k - 1].entryType = "navigation"

\* ------------------------------------------------------------ claims: milestones

IsMilestoneKind(e) ==
  \/ e.entryType = "paint"
  \/ e.entryType = "largest-contentful-paint"
  \/ (e.entryType = "mark" /\ ~isStartedEnded(e.name))

\* C23: under every setting of the timeline filters each entry of the timeline
\* milestones has a duration equal to 0 and is a paint entry, a
\* largest-contentful-paint entry or a mark without a started/ended/finished
\* suffix, and no entry is both a milestone and a timeline duration event.
C23_MilestonesHaveZeroDuration ==
  \A o \in TimelineOptions :
    \A e \in Range(timelineMilestoneEventsOf(o)) :
      /\ e.duration = 0
      /\ IsMilestoneKind(e)
      /\ e \notin Range(timelineFilteredEventsOf(o))

\* ------------------------------------------------------------ claims: resources view

\* the selection holds no value other than 'all'
NoSpecificValue(selection, all) == selection \subseteq {all}

C25_BoundsHavePositiveWidth ==
  LET shown == timelineFilteredEvents \o timelineMilestoneEvents
      bounds == timelineBounds
  IN  Len(shown) > 0 => bounds.max > bounds.min

\* ------------------------------------------------------------ claims: conservation

\* the end entries that are combined: for each pairing key that a started
\* entry has, the first end entry of the input with that key
ConsumedEndIndices ==
  { j \in EndIndices :
      /\ \E i \in StartedIndices : StartedKey(i) = EndKey(j)
      /\ \A l \in EndIndices : EndKey(l) = EndKey(j) => j <= l }

\* the input entry i with the SSR offset on its startTime
InputWithOffset(i) ==
  IF data[i].entryType = "SSR"
  THEN [data[i] EXCEPT !.startTime = @ + ssrTimeOffset]
  ELSE data[i]

\* C26: the entries of the output that are neither combined nor navigation
\* phases are, in the order of the input, exactly the input entries that are
\* neither started entries nor consumed end entries, unchanged but for the SSR
\* offset on startTime; and there is one combined entry per consumed end entry.
C26_Conservation ==
  LET out == processedEvents
      consumed == ConsumedEndIndices
      started == StartedIndices
      tagged == [i \in 1..Len(data) |-> [index |-> i, entry |-> InputWithOffset(i)]]
      passes(x) == x.index \notin started /\ x.index \notin consumed
      kept == SelectSeq(tagged, passes)
      plain(e) == ~IsCombined(e) /\ e.navigationPhase = <<>>
      passed == SelectSeq(out, plain)
  IN  /\ passed = [k \in 1..Len(kept) |-> kept[k].entry]
      /\ Cardinality({k \in DOMAIN out : IsCombined(out[k])}) = Cardinality(consumed)

\* a started entry, the end entry combined with it, a second end entry of
\* type SSR that passes through moved by the offset, and a navigation entry
\* with its phases
C26_Witness ==
  LET out == processedEvents
  IN  /\ ssrTimeOffset # 0
      /\ ConsumedEndIndices # {}
      /\ \E k \in DOMAIN out : out[k].navigationPhase # <<>>
      /\ \E i \in EndIndices \ ConsumedEndIndices :
           /\ data[i].entryType = "SSR"
           /\ InputWithOffset(i) \in Range(out)

\* ------------------------------------------------------------ claims: mark names

\* C27: with selectedMarkNames at 'all' and showNegativeTimestamps on or off,
\* every entry of type mark among the timeline milestones has its name in
\* standaloneMarkNames.
C27_MarkMilestonesAreListed ==
  \A negative \in BOOLEAN :
    LET o == [options EXCEPT !.selectedMarkNames = {ALL_MARKS},
                             !.showNegativeTimestamps = negative]
        names == standaloneMarkNamesOf(o)
    IN  \A e \in Range(timelineMilestoneEventsOf(o)) :
          e.entryType = "mark" => e.name \in names

\* ------------------------------------------------------------ claims: selections

\* the selection is not empty, holds 'all' only alone, and toggling a specific
\* value twice gives it back
SelectionOk(selection, all, values) ==
  /\ selection # {}
  /\ all \in selection => selection = {all}
  /\ \A v \in values \ {all} :
       toggled(toggled(selection, v, all), v, all) = selection

\* C28: after any sequence of toggles, select all and clear, each of
\* timelineFilters, tableFilters and selectedMarkNames is non-empty and holds
\* 'all' only when it is {'all'}, and toggling a specific value twice in a row
\* restores the set.
C28_SelectionInvariant ==
  /\ SelectionOk(timelineFilters, "all", FilterTypes)
  /\ SelectionOk(tableFilters, "all", FilterTypes)
  /\ SelectionOk(selectedMarkNames, ALL_MARKS, MarkNames)
====
